---------------------------- MODULE Spec2Model ----------------------------
(***************************************************************************)
(* Model of the site-audit crawler: the crawl orchestrator of              *)
(* src/crawler/crawler.py (frontier, visited set, worker pool, page cap,   *)
(* external-link verification) and the redirect follower of                *)
(* src/crawler/fetcher.py.                                                 *)
(*                                                                         *)
(* The specifications of the module:                                       *)
(*   Spec        the crawl() state machine: main thread + worker futures   *)
(*   SpecFetch   one fetch_page() call against a redirect graph            *)
(*   SpecRobots  robots.txt fetched, parsed line by line, then queried     *)
(*   SpecSitemap one fetch_sitemap() call against a graph of sitemaps      *)
(*   SpecScore   one compute_health_score() call on an issue list          *)
(***************************************************************************)
EXTENDS Integers, Sequences, FiniteSets, TLC

VARIABLES
    cfg,              \* AuditConfig: max_pages, max_workers, flags
    site,             \* the audited site: start URL, sitemap, responses
    pc,               \* position of the main thread inside crawl()
    visited,          \* _crawl_internal: visited
    todo,             \* _crawl_internal: todo (deque of (url, depth))
    pages,            \* _crawl_internal: pages (dict url -> PageData)
    pending_futures,  \* _crawl_internal: pending_futures, in insertion order
    completed,        \* _crawl_internal: completed (snapshot of done futures)
    cur,              \* page being harvested and index of the next link
    external_urls,    \* _crawl_internal: external_urls
    done_count,       \* _crawl_internal: done_count
    submit_log,       \* urls handed to executor.submit(_fetch_and_parse, ...)
    ext_futures,      \* _check_external_links: futures (url -> state)
    url_status,       \* _check_external_links: url_status
    head_log,         \* urls handed to executor.submit(check_url_status, ...)
    runs,             \* size of the visited set of each earlier crawl() call
    session_log,      \* crawl(): what was asked of the session before seeding
    fx,               \* state of one fetch_page() call (SpecFetch)
    rb,               \* robots.txt: fetch, parse and gate (SpecRobots)
    sm,               \* state of one fetch_sitemap() call (SpecSitemap)
    sc,               \* compute_health_score() calls (SpecScore)
    an,               \* one run_all_analyzers() call (SpecAnalyze)
    dc                \* pages and run_duplicate_checks() (SpecDuplicates)

crawlVars == <<cfg, site, pc, visited, todo, pages, pending_futures, completed,
               cur, external_urls, done_count, submit_log, ext_futures,
               url_status, head_log, runs, session_log>>
vars == <<cfg, site, pc, visited, todo, pages, pending_futures, completed,
          cur, external_urls, done_count, submit_log, ext_futures,
          url_status, head_log, runs, session_log, fx, rb, sm, sc, an, dc>>

----------------------------------------------------------------------------
(* Bounds of the model *)

MaxPagesBound == 3        \* max_pages ranges over 0..MaxPagesBound
MaxWorkersBound == 2      \* max_workers ranges over 1..MaxWorkersBound
MaxRuns == 2              \* crawl() calls on one configuration and site

(* crawler.py:202 caps the external checks at 500; the model uses a cap of *)
(* 2 so that a crawl of a handful of pages can exceed it.                  *)
MAX_EXTERNAL_CHECKS == 2

(* fetcher.py:15 *)
MAX_REDIRECTS == 10

Min(a, b) == IF a <= b THEN a ELSE b

RECURSIVE SeqToSet(_)
SeqToSet(s) == IF s = <<>> THEN {} ELSE {Head(s)} \cup SeqToSet(Tail(s))

----------------------------------------------------------------------------
(* URLs.  A URL string is modelled by its parts as urlparse() splits it:   *)
(*   scheme  "http", "https", another scheme, or "" (no scheme)            *)
(*   host    host name of the netloc ("" when the netloc is empty)         *)
(*   upper   the host is written with upper-case letters                   *)
(*   ports   the ":<port>" suffixes of the netloc, left to right           *)
(*   seg     the path without its trailing slashes ("" or "a" for /a)      *)
(*   slash   number of trailing slashes of the path                        *)
(*   frag    the URL carries a #fragment                                   *)
(* so "http://h" is seg "" slash 0, "http://h/" is seg "" slash 1 and      *)
(* "http://h/a/" is seg "a" slash 1.                                       *)

Url(scheme, host, ports, seg, slash) ==
    [scheme |-> scheme, host |-> host, upper |-> FALSE, ports |-> ports,
     seg |-> seg, slash |-> slash, frag |-> FALSE]

(* The empty string, which _normalize_url returns for a URL it rejects. *)
EmptyUrl == Url("", "", <<>>, "", 0)

(* _normalize_url: removes one default-port suffix *)
StripDefaultPort(scheme, ports) ==
    LET n == Len(ports)
        p1 == IF n > 0 /\ ports[n] = 80 /\ scheme = "http"
              THEN SubSeq(ports, 1, n - 1) ELSE ports
        m == Len(p1)
    IN  IF m > 0 /\ p1[m] = 443 /\ scheme = "https"
        THEN SubSeq(p1, 1, m - 1) ELSE p1

(* _normalize_url: path != "/" and path.endswith("/") -> path.rstrip("/") *)
StripTrailingSlash(seg, slash) ==
    IF ~(seg = "" /\ slash = 1) /\ slash > 0 THEN 0 ELSE slash

(* urlparse raises ValueError for a netloc with an unmatched bracket *)
urlparse_raises(u) == u.host = "["

normalize_url(u) ==
    IF urlparse_raises(u) THEN EmptyUrl
    ELSE IF u.scheme \notin {"http", "https"} THEN EmptyUrl
    ELSE IF u.host = "" /\ u.ports = <<>> THEN EmptyUrl
    ELSE [scheme |-> u.scheme, host |-> u.host, upper |-> FALSE,
          ports |-> StripDefaultPort(u.scheme, u.ports),
          seg |-> u.seg, slash |-> StripTrailingSlash(u.seg, u.slash),
          frag |-> FALSE]

----------------------------------------------------------------------------
(* The audited site.  The server answers by path, so every spelling of a   *)
(* URL of host "h" with the same path gets the same response.              *)

Domain == "h"
H(seg) == Url("http", Domain, <<>>, seg, 0)
X(host) == Url("http", host, <<>>, "", 0)

Segs == {"", "a", "b", "c", "d", "e"}
NoLinks == [s \in Segs |-> <<>>]

(* root links to five distinct internal pages *)
Star5 ==
    [start |-> H(""), sitemap |-> <<>>,
     links |-> [NoLinks EXCEPT
        ![""] = <<H("a"), H("b"), H("c"), H("d"), H("e"), X("x404")>>,
        !["a"] = <<H(""), X("x404"), X("x200")>>,
        !["b"] = <<H("a"), X("x405"), X("xerr")>>]]

(* pages that link to each other, to themselves and to a seed, under       *)
(* several spellings of the same URL                                       *)
Web ==
    [start |-> H(""),
     sitemap |-> <<[H("a") EXCEPT !.upper = TRUE, !.frag = TRUE], H("a")>>,
     links |-> [NoLinks EXCEPT
        ![""] = <<H("a"), Url("http", Domain, <<80>>, "b", 1), H("b"),
                  X("x404")>>,
        !["a"] = <<H("b"), H(""), Url("mailto", "", <<>>, "a", 0),
                   X("x404"), X("xredir")>>,
        !["b"] = <<H("a"), H("c"), H("b"), X("x200")>>,
        !["c"] = <<H("")>>]]

(* two seeds, each the only page linking to a further page *)
TwoSeeds ==
    [start |-> H(""), sitemap |-> <<H("a")>>,
     links |-> [NoLinks EXCEPT
        ![""] = <<H("b"), X("x404")>>,
        !["a"] = <<H("c"), X("x200"), X("xloop")>>,
        !["b"] = <<H("d")>>]]

(* a sitemap that names one page with a repeated default port *)
PortSeeds ==
    [start |-> H(""),
     sitemap |-> <<Url("http", Domain, <<80, 80>>, "a", 0),
                   Url("http", Domain, <<80>>, "a", 0)>>,
     links |-> [NoLinks EXCEPT
        ![""] = <<H("b")>>,
        !["a"] = <<H("c"), X("x404")>>]]

(* the start page links to itself as "/", the root with its slash *)
RootSlash ==
    [start |-> H(""), sitemap |-> <<>>,
     links |-> [NoLinks EXCEPT
        ![""] = <<Url("http", Domain, <<>>, "", 1), H("a")>>,
        !["a"] = <<H(""), X("x200")>>]]

(* a start URL without a host, "http:/a", and a configured sitemap *)
BadStart ==
    [start |-> Url("http", "", <<>>, "a", 0), sitemap |-> <<H("a")>>,
     links |-> [NoLinks EXCEPT !["a"] = <<H("b")>>]]

(* a start URL that urlparse rejects, "http://[" *)
RaisingStart ==
    [start |-> Url("http", "[", <<>>, "", 0), sitemap |-> <<>>,
     links |-> NoLinks]

ScenarioNames ==
    {"Star5", "Web", "TwoSeeds", "PortSeeds", "RootSlash", "BadStart",
     "RaisingStart"}

Scenario(name) ==
    CASE name = "Star5" -> Star5
      [] name = "Web" -> Web
      [] name = "TwoSeeds" -> TwoSeeds
      [] name = "PortSeeds" -> PortSeeds
      [] name = "RootSlash" -> RootSlash
      [] name = "BadStart" -> BadStart
      [] name = "RaisingStart" -> RaisingStart
      [] OTHER -> [start |-> EmptyUrl, sitemap |-> <<>>, links |-> NoLinks]

(* What happens to the fetch of one page of the site:                      *)
(*   "ok"      200 text/html, parsed                                       *)
(*   "neterr"  fetch_page returns a page with status 0 and crawl_error     *)
(*   "exc"     _fetch_and_parse raises inside the worker                   *)
(*   "robots"  robots.txt disallows the path                               *)
(* At most one page of a site fails: fail_seg is its path, fail its kind.   *)
Outcomes == {"ok", "neterr", "exc", "robots"}
FailSegs == {"", "a", "b"}
Sites ==
    {[scenario |-> n, fail_seg |-> "", fail |-> "ok"] : n \in ScenarioNames}
    \cup [scenario : ScenarioNames, fail_seg : FailSegs,
          fail : Outcomes \ {"ok"}]

SiteLinks(seg) == Scenario(site.scenario).links[seg]
Outcome(seg) == IF seg = site.fail_seg THEN site.fail ELSE "ok"

----------------------------------------------------------------------------
(* Records *)

(* models.py LinkData *)
LinkData(u) ==
    [url |-> u, status_code |-> 0, is_broken |-> FALSE, redirect_chain |-> <<>>]

(* models.py PageData; crawl_error "" stands for None *)
PageData(u, depth, status, err, ilinks, elinks) ==
    [url |-> u, depth |-> depth, status_code |-> status, crawl_error |-> err,
     internal_links |-> ilinks, external_links |-> elinks]

Links(seq) == [i \in 1..Len(seq) |-> LinkData(seq[i])]

(* parser.py _is_internal: same registrable domain as the audited site *)
is_internal(u) == u.host = Domain

(* parser.py _parse_links: internal links, and external ones when they are  *)
(* http(s) URLs with a netloc                                               *)
InternalOf(seq) == SelectSeq(seq, LAMBDA u : is_internal(u))
ExternalOf(seq) ==
    SelectSeq(seq, LAMBDA u : /\ ~is_internal(u)
                              /\ u.scheme \in {"http", "https"}
                              /\ u.host # "")

(* robots.py is_url_allowed, as far as the crawl depends on it: the site    *)
(* says which paths its robots.txt disallows for the configured agent       *)
is_url_allowed(u) == Outcome(u.seg) # "robots"

(* _fetch_and_parse: what the worker's future holds when it is done, either *)
(* a PageData or an exception                                               *)
fetch_and_parse(u, depth) ==
    LET out == Outcome(u.seg) IN
    IF cfg.respect_robots /\ ~is_url_allowed(u)
    THEN [raised |-> FALSE,
          page |-> PageData(u, depth, 0, "Blocked by robots.txt", <<>>, <<>>)]
    ELSE IF out = "exc"
    THEN [raised |-> TRUE, page |-> PageData(u, depth, 0, "", <<>>, <<>>)]
    ELSE IF out = "neterr"
    THEN [raised |-> FALSE,
          page |-> PageData(u, depth, 0, "Connection Error", <<>>, <<>>)]
    ELSE [raised |-> FALSE,
          page |-> PageData(u, depth, 200, "",
                            Links(InternalOf(SiteLinks(u.seg))),
                            Links(ExternalOf(SiteLinks(u.seg))))]

NoResult == [raised |-> FALSE, page |-> PageData(EmptyUrl, 0, 0, "", <<>>, <<>>)]

(* crawl lines 49-54: the start URL, then every sitemap URL whose           *)
(* normalization is non-empty and not yet in the list                       *)
RECURSIVE AddSeeds(_, _)
AddSeeds(seeds, rest) ==
    IF rest = <<>> THEN seeds
    ELSE LET n == normalize_url(Head(rest)) IN
         IF n # EmptyUrl /\ n \notin SeqToSet(seeds)
         THEN AddSeeds(Append(seeds, n), Tail(rest))
         ELSE AddSeeds(seeds, Tail(rest))

seed_urls ==
    AddSeeds(<<normalize_url(Scenario(site.scenario).start)>>,
             Scenario(site.scenario).sitemap)

(* _crawl_internal lines 100-104: every seed is normalized again and, when  *)
(* non-empty, appended to todo and added to visited                         *)
SeedNorm(u) == normalize_url(u)

SeedTodo ==
    LET kept == SelectSeq(seed_urls, LAMBDA u : SeedNorm(u) # EmptyUrl)
    IN  [i \in 1..Len(kept) |-> [url |-> SeedNorm(kept[i]), depth |-> 0]]

----------------------------------------------------------------------------
(* Initial state: a configuration and a site; nothing crawled yet *)

Configs ==
    [max_pages : 0..MaxPagesBound, max_workers : 1..MaxWorkersBound,
     check_external_links : BOOLEAN, respect_robots : BOOLEAN]

FetchIdle == [phase |-> "off"]
RobotsIdle == [phase |-> "off"]
SitemapIdle == [phase |-> "off"]
ScoreIdle == [phase |-> "off"]
AnalyzeIdle == [phase |-> "off"]
DupIdle == [phase |-> "off"]

InitCrawl ==
    /\ cfg \in Configs
    /\ site \in Sites
    /\ (~cfg.respect_robots => site.fail = "robots")
    /\ (cfg.respect_robots /\ site.scenario \in {"BadStart", "RaisingStart"})
          => site.fail # "robots"
    /\ pc = "seed"
    /\ visited = {}
    /\ todo = <<>>
    /\ pages = <<>>
    /\ pending_futures = <<>>
    /\ completed = <<>>
    /\ cur = [page |-> NoResult.page, next |-> 0]
    /\ external_urls = {}
    /\ done_count = 0
    /\ submit_log = <<>>
    /\ ext_futures = <<>>
    /\ url_status = <<>>
    /\ head_log = <<>>
    /\ runs = <<>>
    /\ session_log = <<>>

----------------------------------------------------------------------------
(* _crawl_internal *)

Total == Cardinality(DOMAIN pages) + Len(pending_futures)

(* a cap test that lets one page too many through *)
CapReached_OffByOne == Total > cfg.max_pages

(* line 112: the cap test that stops submission *)
CapReached == Total >= cfg.max_pages

(* line 143: the capacity test of an admission *)
HasCapacity == Total < cfg.max_pages

Put(f, k, v) == [x \in DOMAIN f \cup {k} |-> IF x = k THEN v ELSE f[x]]

RemoveAt(seq, i) == SubSeq(seq, 1, i - 1) \o SubSeq(seq, i + 1, Len(seq))

IndexOf(seq, fid) == CHOOSE i \in 1..Len(seq) : seq[i].fid = fid

(* crawl lines 41-54 and _crawl_internal lines 92-104.  Line 42 calls     *)
(* fetch_and_parse_robots and line 45 _get_sitemap, each of which hands    *)
(* its URL to session.get and catches what that raises, before the seeds   *)
(* are normalized; robots.py _build_robots_url calls urlparse outside any  *)
(* try, so a start URL that urlparse rejects ends crawl() with that        *)
(* exception                                                               *)
Seed ==
    /\ pc = "seed"
    /\ IF urlparse_raises(Scenario(site.scenario).start)
       THEN /\ pc' = "failed"
            /\ UNCHANGED <<todo, visited, session_log>>
       ELSE /\ session_log' = <<"robots.txt", "sitemap">>
            /\ todo' = SeedTodo
            /\ visited' = {SeedTodo[i].url : i \in 1..Len(SeedTodo)}
            /\ pc' = "submit"
    /\ UNCHANGED <<cfg, site, pages, pending_futures, completed, cur,
                   external_urls, done_count, submit_log, ext_futures,
                   url_status, head_log, runs, fx, rb, sm, sc, an, dc>>

(* lines 111-119: one iteration of the submission loop *)
Submit ==
    /\ pc = "submit"
    /\ todo # <<>>
    /\ Len(pending_futures) < cfg.max_workers * 2
    /\ ~CapReached
    /\ pending_futures' =
          Append(pending_futures,
                 [fid |-> Len(submit_log) + 1, url |-> Head(todo).url,
                  depth |-> Head(todo).depth, done |-> FALSE,
                  result |-> NoResult])
    /\ submit_log' = Append(submit_log, Head(todo).url)
    /\ todo' = Tail(todo)
    /\ UNCHANGED <<cfg, site, pc, visited, pages, completed, cur,
                   external_urls, done_count, ext_futures, url_status,
                   head_log, runs, session_log,
                   fx, rb, sm, sc, an, dc>>

(* lines 111-113, 121-122: the submission loop ends; with nothing pending   *)
(* the crawl loop is left                                                   *)
SubmitEnd ==
    /\ pc = "submit"
    /\ \/ todo = <<>>
       \/ Len(pending_futures) >= cfg.max_workers * 2
       \/ CapReached
    /\ pc' = IF pending_futures = <<>> THEN "return" ELSE "collect"
    /\ UNCHANGED <<cfg, site, visited, todo, pages, pending_futures,
                   completed, cur, external_urls, done_count, submit_log,
                   ext_futures, url_status, head_log, runs, session_log,
                   fx, rb, sm, sc, an, dc>>

(* a pool thread runs _fetch_and_parse for one submitted future; the pool   *)
(* threads touch nothing but their own future. ThreadPoolExecutor starts   *)
(* work items in submission order on max_workers threads, so a future runs *)
(* only when fewer than max_workers unfinished futures were submitted      *)
(* before it (pending_futures keeps submission order)                      *)
Worker(i) ==
    /\ i \in 1..Len(pending_futures)
    /\ ~pending_futures[i].done
    /\ Cardinality({j \in 1..(i - 1) : ~pending_futures[j].done})
          < cfg.max_workers
    /\ pending_futures' =
          [pending_futures EXCEPT
             ![i].done = TRUE,
             ![i].result = fetch_and_parse(pending_futures[i].url,
                                           pending_futures[i].depth)]
    /\ UNCHANGED <<cfg, site, pc, visited, todo, pages, completed, cur,
                   external_urls, done_count, submit_log, ext_futures,
                   url_status, head_log, runs, session_log,
                   fx, rb, sm, sc, an, dc>>

(* line 125 *)
Collect ==
    /\ pc = "collect"
    /\ completed' = SelectSeq(pending_futures, LAMBDA f : f.done)
    /\ pc' = "process"
    /\ UNCHANGED <<cfg, site, visited, todo, pages, pending_futures, cur,
                   external_urls, done_count, submit_log, ext_futures,
                   url_status, head_log, runs, session_log,
                   fx, rb, sm, sc, an, dc>>

(* lines 128-131: the page of a future; an exception of the worker becomes  *)
(* PageData(url=url, crawl_error=str(exc))                                  *)
ResultPage(f) ==
    IF f.result.raised
    THEN PageData(f.url, 0, 0, "exception", <<>>, <<>>)
    ELSE f.result.page

(* lines 126-135: take the next completed future and store its page *)
StorePage ==
    /\ pc = "process"
    /\ completed # <<>>
    /\ LET f == Head(completed)
           page == ResultPage(f)
       IN  /\ pending_futures' =
                 RemoveAt(pending_futures, IndexOf(pending_futures, f.fid))
           /\ pages' = Put(pages, page.url, page)
           /\ cur' = [page |-> page, next |-> 1]
    /\ done_count' = done_count + 1
    /\ completed' = Tail(completed)
    /\ pc' = "harvest"
    /\ UNCHANGED <<cfg, site, visited, todo, external_urls, submit_log,
                   ext_futures, url_status, head_log, runs, session_log,
                   fx, rb, sm, sc, an, dc>>

(* line 143: the admission test, made under the lock *)
Admissible(norm) == norm \notin visited /\ HasCapacity

(* lines 138-145: one internal link of the page *)
HarvestLink ==
    /\ pc = "harvest"
    /\ cur.next <= Len(cur.page.internal_links)
    /\ LET norm == normalize_url(cur.page.internal_links[cur.next].url)
       IN  IF norm # EmptyUrl /\ Admissible(norm)
           THEN /\ visited' = visited \cup {norm}
                /\ todo' = Append(todo, [url |-> norm,
                                         depth |-> cur.page.depth + 1])
           ELSE UNCHANGED <<visited, todo>>
    /\ cur' = [cur EXCEPT !.next = cur.next + 1]
    /\ UNCHANGED <<cfg, site, pc, pages, pending_futures, completed,
                   external_urls, done_count, submit_log, ext_futures,
                   url_status, head_log, runs, session_log,
                   fx, rb, sm, sc, an, dc>>

(* lines 148-149: the page's external links are collected *)
HarvestEnd ==
    /\ pc = "harvest"
    /\ cur.next > Len(cur.page.internal_links)
    /\ external_urls' = external_urls \cup
          {cur.page.external_links[i].url :
              i \in 1..Len(cur.page.external_links)}
    /\ pc' = "process"
    /\ UNCHANGED <<cfg, site, visited, todo, pages, pending_futures,
                   completed, cur, done_count, submit_log, ext_futures,
                   url_status, head_log, runs, session_log,
                   fx, rb, sm, sc, an, dc>>

(* lines 158-161: all completed futures handled; leave the loop or sleep    *)
(* and go round again                                                       *)
LoopEnd ==
    /\ pc = "process"
    /\ completed = <<>>
    /\ pc' = IF todo = <<>> /\ pending_futures = <<>>
             THEN "return" ELSE "submit"
    /\ UNCHANGED <<cfg, site, visited, todo, pages, pending_futures,
                   completed, cur, external_urls, done_count, submit_log,
                   ext_futures, url_status, head_log, runs, session_log,
                   fx, rb, sm, sc, an, dc>>

----------------------------------------------------------------------------
(* External link verification *)

(* What an external host answers: the status of HEAD (-1: the request      *)
(* raises), the status of GET, and the Location host of a redirect.        *)
ExtServer(host) ==
    CASE host = "x404"   -> [head |-> 404, get |-> 404, location |-> ""]
      [] host = "x200"   -> [head |-> 200, get |-> 200, location |-> ""]
      [] host = "x405"   -> [head |-> 405, get |-> 200, location |-> ""]
      [] host = "xerr"   -> [head |-> -1,  get |-> -1,  location |-> ""]
      [] host = "xredir" -> [head |-> 301, get |-> 301, location |-> "x404"]
      [] host = "xloop"  -> [head |-> 302, get |-> 302, location |-> "xloop"]
      [] OTHER           -> [head |-> 200, get |-> 200, location |-> ""]

RedirectCodes == {301, 302, 303, 307, 308}

(* fetcher.py check_url_status: HEAD, GET when HEAD answers 405, redirects  *)
(* followed by hand for at most MAX_REDIRECTS requests                      *)
RECURSIVE CheckFrom(_, _, _)
CheckFrom(u, i, chain) ==
    IF i >= MAX_REDIRECTS THEN [status |-> 0, chain |-> chain]
    ELSE LET r == ExtServer(u.host)
             st == IF r.head = 405 THEN r.get ELSE r.head
         IN  IF st = -1 THEN [status |-> 0, chain |-> chain]
             ELSE IF st \in RedirectCodes /\ r.location # ""
             THEN CheckFrom(X(r.location), i + 1, Append(chain, u))
             ELSE [status |-> st, chain |-> chain]

check_url_status(u) == CheckFrom(u, 0, <<>>)

(* the external hosts the sites link to, and what a check of each returns *)
ExtHosts == {"x404", "x200", "x405", "xerr", "xredir", "xloop"}
CheckResult == [h \in ExtHosts |-> check_url_status(X(h))]

WantsExternalCheck_IgnoringFlag == external_urls # {}

(* crawl line 68 *)
WantsExternalCheck == cfg.check_external_links /\ external_urls # {}

(* line 202: list(external_urls)[:500]; the order of a set is arbitrary, so *)
(* any subset of the capped size can be the one that is checked             *)
SampleSets_Uncapped(urls) == {urls}

SampleSets(urls) ==
    {S \in SUBSET urls :
        Cardinality(S) = Min(MAX_EXTERNAL_CHECKS, Cardinality(urls))}

(* crawl lines 65-70 with lines 202-208: _crawl_internal has returned; the  *)
(* sampled URLs are all submitted to the second pool                        *)
CheckExternalLinks ==
    /\ pc = "return"
    /\ WantsExternalCheck
    /\ \E sampled \in SampleSets(external_urls) :
          /\ ext_futures' = [u \in sampled |-> [done |-> FALSE,
                                                collected |-> FALSE]]
          /\ head_log' = [u \in sampled |-> 0]
    /\ pc' = "as_completed"
    /\ UNCHANGED <<cfg, site, visited, todo, pages, pending_futures,
                   completed, cur, external_urls, done_count, submit_log,
                   url_status, runs, session_log,
                   fx, rb, sm, sc, an, dc>>

(* crawl lines 68, 72-76: no external check *)
SkipExternalLinks ==
    /\ pc = "return"
    /\ ~WantsExternalCheck
    /\ pc' = "finished"
    /\ UNCHANGED <<cfg, site, visited, todo, pages, pending_futures,
                   completed, cur, external_urls, done_count, submit_log,
                   ext_futures, url_status, head_log, runs, session_log,
                   fx, rb, sm, sc, an, dc>>

(* a thread of the second pool runs check_url_status *)
ExtWorker(u) ==
    /\ u \in DOMAIN ext_futures
    /\ ~ext_futures[u].done
    /\ ext_futures' = [ext_futures EXCEPT ![u].done = TRUE]
    /\ head_log' = [head_log EXCEPT ![u] = @ + 1]
    /\ UNCHANGED <<cfg, site, pc, visited, todo, pages, pending_futures,
                   completed, cur, external_urls, done_count, submit_log,
                   url_status, runs, session_log,
                   fx, rb, sm, sc, an, dc>>

(* lines 209-215: as_completed yields a finished future *)
ExtCollect(u) ==
    /\ pc = "as_completed"
    /\ u \in DOMAIN ext_futures
    /\ ext_futures[u].done /\ ~ext_futures[u].collected
    /\ url_status' = Put(url_status, u, CheckResult[u.host])
    /\ ext_futures' = [ext_futures EXCEPT ![u].collected = TRUE]
    /\ UNCHANGED <<cfg, site, pc, visited, todo, pages, pending_futures,
                   completed, cur, external_urls, done_count, submit_log,
                   head_log, runs, session_log,
                   fx, rb, sm, sc, an, dc>>

IsBroken_ServerErrorsOnly(status) == (status >= 500 /\ status < 600) \/ status = 0

(* line 223 *)
IsBroken(status) == (status >= 400 /\ status < 600) \/ status = 0

(* lines 219-224 *)
BackfillLink(link) ==
    IF link.url \in DOMAIN url_status
    THEN [link EXCEPT !.status_code = url_status[link.url].status,
                      !.is_broken = IsBroken(url_status[link.url].status),
                      !.redirect_chain = url_status[link.url].chain]
    ELSE link

(* lines 217-224, then crawl lines 72-76 *)
Backfill ==
    /\ pc = "as_completed"
    /\ \A u \in DOMAIN ext_futures : ext_futures[u].collected
    /\ pages' = [k \in DOMAIN pages |->
                   [pages[k] EXCEPT !.external_links =
                       [i \in 1..Len(pages[k].external_links) |->
                           BackfillLink(pages[k].external_links[i])]]]
    /\ pc' = "finished"
    /\ UNCHANGED <<cfg, site, visited, todo, pending_futures, completed, cur,
                   external_urls, done_count, submit_log, ext_futures,
                   url_status, head_log, runs, session_log,
                   fx, rb, sm, sc, an, dc>>

----------------------------------------------------------------------------
Init ==
    /\ InitCrawl
    /\ fx = FetchIdle /\ rb = RobotsIdle /\ sm = SitemapIdle /\ sc = ScoreIdle
    /\ an = AnalyzeIdle /\ dc = DupIdle

Next ==
    \/ Seed
    \/ Submit
    \/ SubmitEnd
    \/ \E i \in 1..Len(pending_futures) : Worker(i)
    \/ Collect
    \/ StorePage
    \/ HarvestLink
    \/ HarvestEnd
    \/ LoopEnd
    \/ CheckExternalLinks
    \/ SkipExternalLinks
    \/ \E u \in DOMAIN ext_futures : ExtWorker(u)
    \/ \E u \in DOMAIN ext_futures : ExtCollect(u)
    \/ Backfill

Spec == Init /\ [][Next]_vars

(* crawl() is called again with the same configuration on the same site:   *)
(* every local starts afresh, and the size the visited set had is kept     *)
Rerun ==
    /\ pc = "finished"
    /\ Len(runs) < MaxRuns - 1
    /\ runs' = Append(runs, Cardinality(visited))
    /\ pc' = "seed"
    /\ visited' = {}
    /\ todo' = <<>>
    /\ pages' = <<>>
    /\ pending_futures' = <<>>
    /\ completed' = <<>>
    /\ cur' = [page |-> NoResult.page, next |-> 0]
    /\ external_urls' = {}
    /\ done_count' = 0
    /\ submit_log' = <<>>
    /\ ext_futures' = <<>>
    /\ url_status' = <<>>
    /\ head_log' = <<>>
    /\ session_log' = <<>>
    /\ UNCHANGED <<cfg, site, fx, rb, sm, sc, an, dc>>

SpecTwice == Init /\ [][Next \/ Rerun]_vars

(* The main thread keeps running, and every submitted fetch or check is    *)
(* eventually run to its end by a pool thread.                             *)
MainThread ==
    \/ Seed \/ Submit \/ SubmitEnd \/ Collect \/ StorePage \/ HarvestLink
    \/ HarvestEnd \/ LoopEnd \/ CheckExternalLinks \/ SkipExternalLinks
    \/ (\E u \in DOMAIN ext_futures : ExtCollect(u)) \/ Backfill

PoolThreads ==
    \/ \E i \in 1..Len(pending_futures) : Worker(i)
    \/ \E u \in DOMAIN ext_futures : ExtWorker(u)

SpecFair == Spec /\ WF_vars(MainThread) /\ WF_vars(PoolThreads)

----------------------------------------------------------------------------
(* fetcher.py: one fetch_page(url) call.                                   *)
(*                                                                         *)
(* The URLs a fetch can meet form a chain 0 -> 1 -> ... -> len-1 of        *)
(* redirects (URL 0 is the URL fetched), and the last URL of the chain     *)
(*   "ok"     answers 200                                                  *)
(*   "noloc"  answers a redirect status without a Location header          *)
(*   "exc"    makes session.get raise the exception named by exc           *)
(*   "back"   redirects to URL back of the chain (back = len-1: itself)    *)
(* Every deterministic server looks like this from one start URL.          *)

MaxChain == 12

ExcKinds == {"SSLError", "ConnectionError", "Timeout", "Exception"}

RedirectGraphs ==
    {[len |-> n, last |-> k, exc |-> "", back |-> 0] :
        n \in 1..MaxChain, k \in {"ok", "noloc"}}
    \cup {[len |-> n, last |-> "exc", exc |-> e, back |-> 0] :
        n \in 1..MaxChain, e \in ExcKinds}
    \cup {g \in {[len |-> n, last |-> "back", exc |-> "", back |-> j] :
                    n \in 1..MaxChain, j \in 0..(MaxChain - 1)} :
             g.back < g.len}

(* the answer of the server to GET u with allow_redirects=False *)
Respond(g, u) ==
    IF u < g.len - 1
        THEN [kind |-> "redirect", status |-> 301, location |-> u + 1]
    ELSE IF g.last = "back"
        THEN [kind |-> "redirect", status |-> 302, location |-> g.back]
    ELSE IF g.last = "noloc"
        THEN [kind |-> "noloc", status |-> 302, location |-> -1]
    ELSE IF g.last = "exc"
        THEN [kind |-> "exc", status |-> 0, location |-> -1]
    ELSE [kind |-> "ok", status |-> 200, location |-> -1]

(* _follow_redirects returning None *)
NoResponse == [kind |-> "None", status |-> 0, location |-> -1]

(* crawl_error: label is the text the code writes, exc the exception whose *)
(* str() it carries; NoError stands for None                               *)
NoError == [label |-> "None", exc |-> ""]
LoopError == [label |-> "Redirect loop detected", exc |-> ""]
StrOf(e) == [label |-> "str(exc)", exc |-> e]

(* fetch_page line 30 and _follow_redirects lines 94-96 *)
InitFetchState(g) ==
    [phase |-> "loop", graph |-> g, url |-> 0,
     current_url |-> 0, seen_urls |-> {}, i |-> 0,
     redirect_chain |-> <<>>, requests |-> <<>>,
     status_code |-> 0, crawl_error |-> NoError,
     resp |-> NoResponse, final_url |-> 0]

IsLoop_SelfOnly(next_url, current_url, seen_urls) == next_url = current_url

(* _follow_redirects line 125 *)
IsLoop(next_url, current_url, seen_urls) ==
    next_url \in seen_urls \/ next_url = current_url

(* _follow_redirects lines 98-133: one pass of the for loop, with its      *)
(* request                                                                 *)
FollowStep ==
    /\ fx.phase = "loop"
    /\ fx.i < MAX_REDIRECTS
    /\ LET r == Respond(fx.graph, fx.current_url)
           sent == [fx EXCEPT !.requests = Append(@, fx.current_url)]
       IN  fx' =
           CASE r.kind = "exc" ->
                  [sent EXCEPT !.crawl_error = StrOf(fx.graph.exc),
                               !.status_code = 0,
                               !.resp = NoResponse, !.phase = "returned"]
             [] r.kind = "noloc" ->
                  [sent EXCEPT !.resp = NoResponse, !.phase = "returned"]
             [] r.kind = "ok" ->
                  [sent EXCEPT !.resp = r, !.phase = "returned"]
             [] r.kind = "redirect" ->
                  IF IsLoop(r.location, fx.current_url, fx.seen_urls)
                  THEN [sent EXCEPT
                          !.redirect_chain = Append(@, fx.current_url),
                          !.crawl_error = LoopError,
                          !.status_code = r.status,
                          !.resp = r, !.phase = "returned"]
                  ELSE [sent EXCEPT
                          !.redirect_chain = Append(@, fx.current_url),
                          !.seen_urls = @ \cup {fx.current_url},
                          !.current_url = r.location,
                          !.i = @ + 1]
    /\ UNCHANGED <<crawlVars, rb, sm, sc, an, dc>>

(* _follow_redirects lines 98, 135: the for loop is exhausted *)
FollowExhausted ==
    /\ fx.phase = "loop"
    /\ fx.i >= MAX_REDIRECTS
    /\ fx' = [fx EXCEPT !.resp = NoResponse, !.phase = "returned"]
    /\ UNCHANGED <<crawlVars, rb, sm, sc, an, dc>>

(* fetch_page lines 36-62, 80: the page is completed from the response *)
FinishFetch ==
    /\ fx.phase = "returned"
    /\ fx' = IF fx.resp = NoResponse
             THEN [fx EXCEPT !.phase = "done"]
             ELSE [fx EXCEPT !.status_code = fx.resp.status,
                             !.final_url = fx.current_url,
                             !.phase = "done"]
    /\ UNCHANGED <<crawlVars, rb, sm, sc, an, dc>>

(* the crawl variables while a single fetch is studied *)
CrawlIdle ==
    /\ cfg = [max_pages |-> 0, max_workers |-> 1,
              check_external_links |-> FALSE, respect_robots |-> FALSE]
    /\ site = [scenario |-> "none", fail_seg |-> "", fail |-> "ok"]
    /\ pc = "off"
    /\ visited = {}
    /\ todo = <<>>
    /\ pages = <<>>
    /\ pending_futures = <<>>
    /\ completed = <<>>
    /\ cur = [page |-> NoResult.page, next |-> 0]
    /\ external_urls = {}
    /\ done_count = 0
    /\ submit_log = <<>>
    /\ ext_futures = <<>>
    /\ url_status = <<>>
    /\ head_log = <<>>
    /\ runs = <<>>
    /\ session_log = <<>>

InitFetch ==
    /\ CrawlIdle
    /\ \E g \in RedirectGraphs : fx = InitFetchState(g)
    /\ rb = RobotsIdle /\ sm = SitemapIdle /\ sc = ScoreIdle
    /\ an = AnalyzeIdle /\ dc = DupIdle

NextFetch == FollowStep \/ FollowExhausted \/ FinishFetch

SpecFetch == InitFetch /\ [][NextFetch]_vars

----------------------------------------------------------------------------
(* Claims about the crawl *)

Distinct(seq) == \A i, j \in 1..Len(seq) : i # j => seq[i] # seq[j]

TodoUrls == [i \in 1..Len(todo) |-> todo[i].url]

(* C1: under every interleaving of worker completions each normalized URL  *)
(* is admitted to the frontier and submitted for fetching at most once,    *)
(* also when it is found again through links or is a seed; so the page map *)
(* never holds two entries whose normalized URLs are equal.                *)
C1_AtMostOnce ==
    /\ Distinct(submit_log \o TodoUrls)
    /\ \A k1, k2 \in DOMAIN pages :
          normalize_url(k1) = normalize_url(k2) => k1 = k2

(* C2: in every reachable state of the internal crawl the completed pages  *)
(* plus the fetches submitted and not yet collected number at most         *)
(* max_pages, and a discovered link enters the frontier only in a step     *)
(* that finds that total below max_pages and the link not yet visited.     *)
C2_PageCap ==
    /\ [](Total <= cfg.max_pages)
    /\ [][(pc = "harvest" /\ Len(todo') > Len(todo)) =>
            /\ Total < cfg.max_pages
            /\ todo'[Len(todo')].url \notin visited
            /\ visited' = visited \cup {todo'[Len(todo')].url}
            /\ todo' = Append(todo, todo'[Len(todo')])]_vars

(* the cap is met with a discovered page in flight *)
C2_Witness ==
    /\ cfg.max_pages >= 2
    /\ Total = cfg.max_pages
    /\ \E i \in 1..Len(pending_futures) : pending_futures[i].depth >= 1

(* the normalized URLs the internal links of a fetched page lead to *)
LinkTargets(u) ==
    LET r == fetch_and_parse(u, 0)
        ls == IF r.raised THEN <<>> ELSE r.page.internal_links
    IN  {normalize_url(ls[i].url) : i \in 1..Len(ls)} \ {EmptyUrl}

RECURSIVE ReachableFrom(_)
ReachableFrom(S) ==
    LET T == S \cup UNION {LinkTargets(u) : u \in S}
    IN  IF T = S THEN S ELSE ReachableFrom(T)

(* the distinct normalized URLs reachable from the seeds *)
Reachable == ReachableFrom({SeedTodo[i].url : i \in 1..Len(SeedTodo)})

InternalCrawlEnded == pc \in {"return", "as_completed", "finished"}

C4_Termination ==
    /\ <>InternalCrawlEnded
    /\ [](InternalCrawlEnded =>
            pending_futures = <<>> /\ (todo = <<>> \/ CapReached))
    /\ [][(CapReached /\ pc \in {"submit", "collect", "process", "harvest"}) =>
            /\ CapReached'
            /\ visited' = visited
            /\ submit_log' = submit_log]_vars

(* C5: two runs of the same crawl with the same configuration against the  *)
(* same site responses end with visited sets of the same size, whatever    *)
(* order the workers complete in.                                          *)
C5_SameVisitedSize ==
    InternalCrawlEnded =>
        \A i \in 1..Len(runs) : runs[i] = Cardinality(visited)

----------------------------------------------------------------------------
Count(seq, x) == Cardinality({i \in 1..Len(seq) : seq[i] = x})
Fails(u) ==
    \/ Outcome(u.seg) \in {"neterr", "exc"}
    \/ Outcome(u.seg) = "robots" /\ cfg.respect_robots

(* C6: a fetch that fails for one URL (network error, exception in the     *)
(* worker, robots.txt block) never aborts the crawl: one Page recording    *)
(* the failure is stored for the URL and counts toward the cap, the URL is *)
(* never queued or fetched again, and the rest of the frontier is still    *)
(* processed.                                                              *)
C6_FailureIsolated ==
    /\ [](/\ \A k \in DOMAIN pages :
              /\ Fails(k) <=> pages[k].crawl_error # ""
              /\ Fails(k) =>
                    /\ Count(submit_log, k) = 1
                    /\ \A i \in 1..Len(pending_futures) :
                          pending_futures[i].url # k
          /\ Total <= cfg.max_pages
          /\ InternalCrawlEnded =>
                /\ pending_futures = <<>>
                /\ todo = <<>> \/ CapReached
                /\ \A i \in 1..Len(submit_log) :
                      submit_log[i] \in DOMAIN pages)
    /\ [][\A k \in DOMAIN pages :
            Fails(k) =>
                /\ Count(TodoUrls', k) <= Count(TodoUrls, k)
                /\ Count(submit_log', k) = Count(submit_log, k)
                /\ k \in DOMAIN pages']_vars

ExternalChecksIssued == DOMAIN ext_futures # {}

(* C7: external-link verification never overlaps the internal crawl: while *)
(* an internal fetch is submitted or in flight no external check has been  *)
(* issued, the checks are issued only once _crawl_internal has returned,   *)
(* and none is issued when check_external_links is off.                    *)
C7_ExternalPhaseSeparate ==
    /\ [](ExternalChecksIssued =>
            /\ pending_futures = <<>>
            /\ completed = <<>>
            /\ pc \in {"as_completed", "finished"}
            /\ cfg.check_external_links)
    /\ [][(ext_futures' # ext_futures \/ head_log' # head_log
              \/ url_status' # url_status) =>
            /\ pc \in {"return", "as_completed"}
            /\ pending_futures = <<>> /\ pending_futures' = <<>>
            /\ submit_log' = submit_log /\ todo' = todo
            /\ visited' = visited]_vars
    /\ [][pc' = "as_completed" => pc \in {"return", "as_completed"}]_vars

C7_Witness ==
    /\ pc = "as_completed"
    /\ Cardinality(DOMAIN pages) >= 2
    /\ \E u \in DOMAIN head_log : head_log[u] = 1

Referrers(u) ==
    {k \in DOMAIN pages :
        \E i \in 1..Len(pages[k].external_links) :
            pages[k].external_links[i].url = u}

(* C8: each distinct external URL is checked at most once however many     *)
(* pages and links reference it, and at most MAX_EXTERNAL_CHECKS external  *)
(* URLs (500 in the source) are checked in one crawl.                      *)
C8_ExternalChecksBounded ==
    /\ \A u \in DOMAIN head_log : head_log[u] <= 1
    /\ Cardinality(DOMAIN head_log) <= MAX_EXTERNAL_CHECKS
    /\ DOMAIN url_status \subseteq DOMAIN head_log
    /\ DOMAIN head_log \subseteq external_urls

C8_Witness ==
    /\ pc = "finished"
    /\ Cardinality(external_urls) > MAX_EXTERNAL_CHECKS
    /\ Cardinality(DOMAIN url_status) = MAX_EXTERNAL_CHECKS
    /\ \E u \in DOMAIN head_log :
          head_log[u] = 1 /\ Cardinality(Referrers(u)) >= 2

ExternalLinkData ==
    UNION {{pages[k].external_links[i] :
               i \in 1..Len(pages[k].external_links)} : k \in DOMAIN pages}
AnswersHead404(u) == ExtServer(u.host).head = 404
CheckedCrawlFinished == pc = "finished" /\ cfg.check_external_links

(* C9 as stated: after a crawl with external-link checking enabled, every  *)
(* LinkData on every crawled page that points to an external URL whose     *)
(* server answers HEAD with 404 has is_broken = true and status_code =     *)
(* 404.                                                                    *)
C9_Every404Backfilled ==
    CheckedCrawlFinished =>
        \A l \in ExternalLinkData :
            AnswersHead404(l.url) => l.is_broken /\ l.status_code = 404

(* C9 amended: the same for every external URL that was among the checked  *)
(* ones (at most MAX_EXTERNAL_CHECKS of them are); the result of a checked *)
(* URL is back-filled onto every LinkData that references it, on all       *)
(* pages, and a LinkData of an unchecked URL keeps its defaults.           *)
C9_Checked404Backfilled ==
    CheckedCrawlFinished =>
        \A l \in ExternalLinkData :
            IF l.url \in DOMAIN url_status
            THEN /\ l.status_code = CheckResult[l.url.host].status
                 /\ l.redirect_chain = CheckResult[l.url.host].chain
                 /\ l.is_broken = (l.status_code = 0 \/ l.status_code >= 400)
                 /\ AnswersHead404(l.url) =>
                        l.is_broken /\ l.status_code = 404
            ELSE l = LinkData(l.url)

C9_Witness ==
    /\ CheckedCrawlFinished
    /\ \E u \in DOMAIN url_status :
          /\ AnswersHead404(u)
          /\ Cardinality(Referrers(u)) >= 2
    /\ \E l \in ExternalLinkData : l.url \notin DOMAIN url_status

----------------------------------------------------------------------------
(* the last request of the fetch was answered by a redirect to the URL it  *)
(* was sent to or to a URL requested earlier in this fetch                 *)
RepeatsAHop(f) ==
    /\ f.requests # <<>>
    /\ LET r == Respond(f.graph, f.requests[Len(f.requests)])
       IN  r.kind = "redirect" /\ r.location \in SeqToSet(f.requests)

LoopGraphABA == [len |-> 2, last |-> "back", exc |-> "", back |-> 0]

(* C10: for any redirect graph a single fetch stops as soon as a           *)
(* redirect's target equals the current URL or a URL followed earlier in   *)
(* this fetch, and the Page it returns for the fetched URL carries the     *)
(* redirect-loop crawl_error; no URL is requested twice and at most        *)
(* MAX_REDIRECTS requests are made; for A -> B -> A the fetch of A makes   *)
(* two requests and ends with the redirect-loop classification.            *)
C10_RedirectLoop ==
    /\ [](fx.phase # "off" =>
            /\ Distinct(fx.requests)
            /\ Len(fx.requests) <= MAX_REDIRECTS
            /\ fx.url = 0
            /\ RepeatsAHop(fx) =>
                  fx.phase \in {"returned", "done"}
                      /\ fx.crawl_error = LoopError
            /\ fx.crawl_error = LoopError => RepeatsAHop(fx)
            /\ (fx.phase = "done" /\ fx.graph = LoopGraphABA) =>
                  fx.crawl_error = LoopError /\ fx.requests = <<0, 1>>)
    /\ [][(fx.phase # "off" /\ fx.phase # "loop") =>
             /\ fx'.requests = fx.requests
             /\ fx'.crawl_error = fx.crawl_error]_vars

C10_Witness ==
    /\ fx.phase = "done"
    /\ fx.graph = LoopGraphABA
    /\ fx.crawl_error = LoopError
    /\ fx.requests = <<0, 1>>

----------------------------------------------------------------------------
(* fetch_page lines 64-78: what each except clause of fetch_page writes    *)
(* into crawl_error for the exception it names                             *)
TooManyRedirectsError == [label |-> "Too many redirects", exc |-> ""]
HandlerError(e) ==
    CASE e = "SSLError"        -> [label |-> "SSL Error: ", exc |-> e]
      [] e = "ConnectionError" -> [label |-> "Connection Error: ", exc |-> e]
      [] e = "Timeout"         -> [label |-> "Request timed out", exc |-> ""]
      [] OTHER                 -> [label |-> "Unexpected error: ", exc |-> e]

(* the fetch made MAX_REDIRECTS requests to distinct URLs and the last     *)
(* answer redirects once more, to a URL not requested before               *)
StillRedirected(f) ==
    /\ Len(f.requests) = MAX_REDIRECTS
    /\ Distinct(f.requests)
    /\ LET r == Respond(f.graph, f.requests[Len(f.requests)])
       IN  r.kind = "redirect" /\ r.location \notin SeqToSet(f.requests)

(* C11: a fetch whose redirect chain repeats no URL and is still being     *)
(* redirected after the maximum of 10 hops returns a Page with             *)
(* status_code 0 and the "too many redirects" crawl_error.                 *)
C11_TooManyRedirects ==
    (fx.phase = "done" /\ StillRedirected(fx)) =>
        /\ fx.status_code = 0
        /\ fx.crawl_error = TooManyRedirectsError

(* the fetch ended because the request raised the exception of the graph   *)
FailedWith(f, e) ==
    /\ f.phase = "done"
    /\ f.requests # <<>>
    /\ Respond(f.graph, f.requests[Len(f.requests)]).kind = "exc"
    /\ f.graph.exc = e

(* C12: a fetch that fails with a TLS failure, a connection failure, a     *)
(* timeout or an unexpected error returns a Page with status_code 0 and a  *)
(* crawl_error under the classification of that kind of failure, not the   *)
(* bare text of the exception.                                             *)
C12_FailureTaxonomy ==
    \A e \in ExcKinds :
        FailedWith(fx, e) =>
            /\ fx.status_code = 0
            /\ fx.crawl_error # NoError
            /\ fx.crawl_error = HandlerError(e)

----------------------------------------------------------------------------
(* robots.py.  A string is the sequence of its characters; a line of       *)
(* robots.txt is the directive it carries with its value.                  *)

MaxLines == 4             \* lines of a robots.txt

PathA == <<"/", "a">>
PathAB == <<"/", "a", "/", "b">>
RulePaths == {<<>>, PathA, PathAB}
UrlPaths ==
    {<<>>, <<"/">>, PathA, <<"/", "a", "b">>, <<"/", "a", "/", "a">>, PathAB,
     <<"/", "a", "/", "b", "/", "a">>, <<"/", "b">>}

FileAgents == {"*", "Bot", "other"}
UserAgents == {"BOT", "other", "nobody"}

(* str.lower() on the agent names of the model *)
Lower(a) == IF a \in {"Bot", "BOT", "bot"} THEN "bot" ELSE a

Line(kind, agent, path) == [kind |-> kind, agent |-> agent, path |-> path]
RobotsLines ==
    {Line("blank", "", <<>>), Line("comment", "", <<>>),
     Line("nocolon", "", <<>>)}
    \cup {Line("user-agent", a, <<>>) : a \in FileAgents}
    \cup {Line("disallow", "", p) : p \in RulePaths}
    \cup {Line("allow", "", p) : p \in RulePaths \ {<<>>}}

(* what the server answers to GET /robots.txt: a status, or the request    *)
(* raises a requests.RequestException                                      *)
RobotsAnswers ==
    {[raises |-> FALSE, status |-> st] : st \in {200, 404, 403, 500}}
    \cup {[raises |-> TRUE, status |-> 0]}

(* models.py RobotsData as line 20 of robots.py constructs it *)
NewRobotsData ==
    [exists |-> FALSE, status_code |-> 0, disallow_rules |-> <<>>,
     allow_rules |-> <<>>, parse_errors |-> <<>>]

Exists_AnyStatus(status) == TRUE

(* fetch_and_parse_robots lines 27-28 *)
Exists(status) == status = 200

(* fetch_and_parse_robots lines 20-39 without the call of _parse_robots *)
FetchedRobotsData(answer) ==
    IF answer.raises
    THEN [NewRobotsData EXCEPT
            !.parse_errors = <<"Failed to fetch robots.txt">>]
    ELSE IF Exists(answer.status)
    THEN [NewRobotsData EXCEPT !.status_code = answer.status,
                               !.exists = TRUE]
    ELSE IF answer.status = 404
    THEN [NewRobotsData EXCEPT !.status_code = answer.status]
    ELSE [NewRobotsData EXCEPT
            !.status_code = answer.status,
            !.parse_errors = <<"robots.txt returned HTTP">>]

(* _parse_robots lines 79-80, 84-85: one rule for each current agent *)
RulesFor(agents, path) ==
    [i \in 1..Len(agents) |-> [agent |-> agents[i], path |-> path]]

(* _parse_robots lines 52-99: the body of the loop for one line *)
ParseStep(r, l) ==
    CASE l.kind = "blank" ->
           IF r.in_agent_block
           THEN [r EXCEPT !.current_agents = <<>>, !.in_agent_block = FALSE]
           ELSE r
      [] l.kind = "nocolon" ->
           [r EXCEPT !.data.parse_errors =
                         Append(@, "Invalid line (no colon)")]
      [] l.kind = "user-agent" ->
           [r EXCEPT !.current_agents =
                         Append(IF r.in_agent_block THEN @ ELSE <<>>, l.agent),
                     !.in_agent_block = TRUE]
      [] l.kind = "disallow" ->
           [r EXCEPT !.in_agent_block = TRUE,
                     !.data.disallow_rules =
                         @ \o RulesFor(r.current_agents, l.path)]
      [] l.kind = "allow" ->
           [r EXCEPT !.in_agent_block = TRUE,
                     !.data.allow_rules =
                         @ \o RulesFor(r.current_agents, l.path)]
      [] OTHER -> r

(* str.startswith *)
StartsWith(str, prefix) ==
    Len(prefix) <= Len(str) /\ SubSeq(str, 1, Len(prefix)) = prefix

(* is_url_allowed lines 118-125: the paths of the rules of the agents *)
PathsFor(rules, agents_to_check) ==
    LET sel == SelectSeq(rules,
                         LAMBDA r : Lower(r.agent) \in agents_to_check)
    IN  [i \in 1..Len(sel) |-> sel[i].path]

(* is_url_allowed lines 128-140: the two loops; skip_empty is the test of  *)
(* lines 137-138, made for the Disallow paths only                         *)
RECURSIVE BestLen(_, _, _, _)
BestLen(rule_paths, path, skip_empty, best) ==
    IF rule_paths = <<>> THEN best
    ELSE LET rule_path == Head(rule_paths) IN
         IF skip_empty /\ rule_path = <<>>
         THEN BestLen(Tail(rule_paths), path, skip_empty, best)
         ELSE IF StartsWith(path, rule_path) /\ Len(rule_path) > best
         THEN BestLen(Tail(rule_paths), path, skip_empty, Len(rule_path))
         ELSE BestLen(Tail(rule_paths), path, skip_empty, best)

AllowWins_OnlyWhenLonger(best_allow_len, best_disallow_len) ==
    best_allow_len > best_disallow_len

(* is_url_allowed line 146 *)
AllowWins(best_allow_len, best_disallow_len) ==
    best_allow_len >= best_disallow_len

(* robots.py is_url_allowed; url_path is urlparse(url).path *)
IsUrlAllowed(url_path, robots_data, user_agent) ==
    IF ~robots_data.exists THEN TRUE
    ELSE LET path == IF url_path = <<>> THEN <<"/">> ELSE url_path
             agents_to_check == {Lower(user_agent), "*"}
             allows == PathsFor(robots_data.allow_rules, agents_to_check)
             disallows ==
                 PathsFor(robots_data.disallow_rules, agents_to_check)
             best_allow_len == BestLen(allows, path, FALSE, -1)
             best_disallow_len == BestLen(disallows, path, TRUE, -1)
         IN  IF best_disallow_len < 0 THEN TRUE
             ELSE AllowWins(best_allow_len, best_disallow_len)

(* rb while robots.txt is fetched and parsed: lines is the part of the     *)
(* file read so far                                                        *)
InitRobotsState(answer) ==
    [phase |-> "fetch", answer |-> answer, lines |-> <<>>,
     current_agents |-> <<>>, in_agent_block |-> FALSE,
     data |-> NewRobotsData,
     url_path |-> <<>>, user_agent |-> "", allowed |-> TRUE]

robotsFrame == <<crawlVars, fx, sm, sc, an, dc>>

(* fetch_and_parse_robots lines 18-35 up to the call of _parse_robots *)
FetchRobots ==
    /\ rb.phase = "fetch"
    /\ LET data == FetchedRobotsData(rb.answer)
       IN  rb' = [rb EXCEPT !.data = data,
                            !.phase = IF data.exists THEN "parse"
                                      ELSE "parsed"]
    /\ UNCHANGED robotsFrame

(* _parse_robots: the next line of the file is read and handled *)
ParseLine ==
    /\ rb.phase = "parse"
    /\ Len(rb.lines) < MaxLines
    /\ \E l \in RobotsLines :
          rb' = [ParseStep(rb, l) EXCEPT !.lines = Append(rb.lines, l)]
    /\ UNCHANGED robotsFrame

(* _parse_robots: the file has no further line *)
EndParse ==
    /\ rb.phase = "parse"
    /\ rb' = [rb EXCEPT !.phase = "parsed"]
    /\ UNCHANGED robotsFrame

(* is_url_allowed is called on the RobotsData; it reads nothing of the     *)
(* parser, whose locals are gone                                           *)
AskAllowed ==
    /\ rb.phase = "parsed"
    /\ \E p \in UrlPaths, ua \in UserAgents :
          rb' = [rb EXCEPT !.phase = "asked",
                           !.lines = <<>>, !.current_agents = <<>>,
                           !.in_agent_block = FALSE,
                           !.url_path = p, !.user_agent = ua,
                           !.allowed = IsUrlAllowed(p, rb.data, ua)]
    /\ UNCHANGED robotsFrame

InitRobots ==
    /\ CrawlIdle
    /\ fx = FetchIdle /\ sm = SitemapIdle /\ sc = ScoreIdle
    /\ an = AnalyzeIdle /\ dc = DupIdle
    /\ \E answer \in RobotsAnswers : rb = InitRobotsState(answer)

NextRobots == FetchRobots \/ ParseLine \/ EndParse \/ AskAllowed

SpecRobots == InitRobots /\ [][NextRobots]_vars

----------------------------------------------------------------------------
(* the paths of the rules that apply to the agent: those recorded for an   *)
(* agent whose name is, case aside, the agent's name, or for "*"           *)
DeclaredFor(rules, user_agent) ==
    {rules[i].path : i \in {j \in 1..Len(rules) :
        Lower(rules[j].agent) = Lower(user_agent) \/ rules[j].agent = "*"}}
Matching(paths, path) == {p \in paths : StartsWith(path, p)}
Longest(paths) ==
    IF paths = {} THEN -1
    ELSE CHOOSE n \in {Len(p) : p \in paths} :
             \A m \in {Len(p) : p \in paths} : m <= n
AllowedByRules(data, url_path, user_agent) ==
    LET path == IF url_path = <<>> THEN <<"/">> ELSE url_path
        dis == Matching(DeclaredFor(data.disallow_rules, user_agent)
                            \ {<<>>}, path)
        alw == Matching(DeclaredFor(data.allow_rules, user_agent), path)
    IN  dis = {} \/ Longest(alw) >= Longest(dis)
PrivateRules(data) ==
    /\ {<<r.agent, r.path>> : r \in SeqToSet(data.disallow_rules)}
          = {<<"*", PathA>>}
    /\ {<<r.agent, r.path>> : r \in SeqToSet(data.allow_rules)}
          = {<<"*", PathAB>>}

(* C13: for every URL path, user agent and rule set of an existing         *)
(* robots.txt, is_url_allowed is true exactly when no non-empty Disallow   *)
(* path of the agent or of * is a prefix of the path, or the longest       *)
(* matching Allow path is at least as long as the longest matching         *)
(* Disallow path; with Disallow /a and Allow /a/b for *, /a/b/a and /b are *)
(* allowed and /a/a is not.                                                *)
C13_AllowPrecedence ==
    (rb.phase = "asked" /\ rb.data.exists) =>
        /\ rb.allowed = AllowedByRules(rb.data, rb.url_path, rb.user_agent)
        /\ PrivateRules(rb.data) =>
              /\ rb.url_path = <<"/", "a", "/", "b", "/", "a">> => rb.allowed
              /\ rb.url_path = <<"/", "b">> => rb.allowed
              /\ rb.url_path = <<"/", "a", "/", "a">> => ~rb.allowed

C13_Witness ==
    /\ rb.phase = "asked" /\ rb.data.exists
    /\ rb.url_path = PathA
    /\ rb.allowed
    /\ \E r \in SeqToSet(rb.data.disallow_rules) :
          r.path = PathA /\ Lower(r.agent) = Lower(rb.user_agent)
    /\ \E r \in SeqToSet(rb.data.allow_rules) :
          r.path = PathA /\ r.agent = "*"

(* C14: the robots gate fails open: when the fetch of robots.txt answers   *)
(* 404 or another non-200 status or fails at the network level,            *)
(* is_url_allowed is true for every URL and agent, and for a response      *)
(* that is neither 200 nor 404 the problem is recorded on the RobotsData.  *)
C14_FailOpen ==
    (rb.phase \in {"parse", "parsed", "asked"}
        /\ (rb.answer.raises \/ rb.answer.status # 200)) =>
        /\ ~rb.data.exists
        /\ rb.phase = "asked" => rb.allowed
        /\ \A p \in UrlPaths, ua \in UserAgents :
              IsUrlAllowed(p, rb.data, ua)
        /\ (~rb.answer.raises /\ rb.answer.status # 404) =>
              /\ rb.data.parse_errors # <<>>
              /\ rb.data.status_code = rb.answer.status

C14_Witness ==
    /\ rb.phase = "asked"
    /\ ~rb.answer.raises /\ rb.answer.status = 500
    /\ rb.url_path = PathA
    /\ rb.allowed
    /\ rb.data.parse_errors # <<>>

(* the rules a file declares: a run of consecutive User-agent lines opens  *)
(* a group, also right after a rule line; a blank line closes the group;   *)
(* every rule line is recorded once for each agent of the open group       *)
RECURSIVE DeclaredRules(_, _, _, _)
DeclaredRules(lines, agents, in_run, kind) ==
    IF lines = <<>> THEN <<>>
    ELSE LET l == Head(lines) rest == Tail(lines) IN
         CASE l.kind = "blank" -> DeclaredRules(rest, <<>>, FALSE, kind)
           [] l.kind = "user-agent" ->
                DeclaredRules(rest,
                              IF in_run THEN Append(agents, l.agent)
                              ELSE <<l.agent>>,
                              TRUE, kind)
           [] l.kind \in {"allow", "disallow"} ->
                (IF l.kind = kind THEN RulesFor(agents, l.path) ELSE <<>>)
                    \o DeclaredRules(rest, agents, FALSE, kind)
           [] OTHER -> DeclaredRules(rest, agents, in_run, kind)

(* C15: every Allow/Disallow rule is recorded for exactly the agents named *)
(* by the run of consecutive User-agent lines that opened the current      *)
(* group: a User-agent line after a rule line opens a new group, and a     *)
(* blank line closes the group.                                            *)
C15_RuleGroups ==
    rb.phase \in {"parse", "parsed"} =>
        /\ rb.data.disallow_rules =
              DeclaredRules(rb.lines, <<>>, FALSE, "disallow")
        /\ rb.data.allow_rules =
              DeclaredRules(rb.lines, <<>>, FALSE, "allow")

----------------------------------------------------------------------------
(* sitemap.py.  A sitemap URL is a number; the sitemaps of a site form a   *)
(* graph: a chain of sitemap indexes 0 -> 1 -> ... -> len-1, three         *)
(* sitemaps listed by the root index next to its chain child, and one      *)
(* listed by the last index of the chain, which can also list an index of  *)
(* the chain again (itself included).                                      *)

MaxNest == 8              \* longest chain of nested sitemap indexes

(* sitemap.py:25 *)
MAX_RECURSION == 5

(* sitemap.py:26 caps the collected URLs at 10,000; the model uses a cap   *)
(* of 3 so that the handful of <loc> entries of a graph can exceed it.     *)
MAX_URLS == 3

Leaf1 == 101
Bad == 102
Leaf2 == 103
Deep == 104

FailKinds == {"non200", "neterr", "malformed", "badroot", "exc"}

SitemapGraphs ==
    {g \in [len : 1..MaxNest, back : -1..(MaxNest - 1), fail : FailKinds,
            start : {0, Bad, Leaf1}] : g.back < g.len}

(* what the server holds at a sitemap URL:                                 *)
(*   "index"      200, <sitemapindex> with child <loc> entries             *)
(*   "urlset"     200, <urlset> with page <loc> entries                    *)
(*   "non200"     a status other than 200                                  *)
(*   "neterr"     session.get raises a requests.RequestException           *)
(*   "malformed"  200, body that is not well-formed XML                    *)
(*   "badroot"    200, XML with another root element                       *)
(*   "exc"        200, handling the body raises another exception          *)
Kind(g, url) ==
    IF url = Bad THEN g.fail
    ELSE IF url \in {Leaf1, Leaf2, Deep} THEN "urlset"
    ELSE "index"

(* the <loc> entries of a sitemap index, in document order *)
Children(g, url) ==
    (IF url = 0 THEN <<Leaf1, Bad>> ELSE <<>>)
    \o (IF url < g.len - 1 THEN <<url + 1>>
        ELSE (IF g.back >= 0 THEN <<g.back>> ELSE <<>>) \o <<Deep>>)
    \o (IF url = 0 THEN <<Leaf1, Leaf2>> ELSE <<>>)

(* the <loc> entries of a urlset, in document order *)
Locs(url) ==
    CASE url = Leaf1 -> <<1>>
      [] url = Leaf2 -> <<2, 3>>
      [] url = Deep -> <<4, 5>>
      [] OTHER -> <<>>

(* models.py SitemapData as fetch_sitemap line 31 constructs it *)
NewSitemapData ==
    [exists |-> FALSE, status_code |-> 0, is_index |-> FALSE,
     child_sitemaps |-> <<>>, urls |-> <<>>, url_count |-> 0,
     parse_errors |-> <<>>]

(* one activation of _fetch_recursive: at "call" before line 45, at        *)
(* "children" in the loop of line 72, at "locs" in the loop of line 81     *)
Frame(url, depth) == [url |-> url, depth |-> depth, at |-> "call", pos |-> 1]

(* fetch_sitemap lines 31-32; fetch_log is the list of the requests made   *)
(* with the depth of each, loc_log the list of the page <loc> entries met  *)
InitSitemapState(g) ==
    [phase |-> "run", graph |-> g, stack |-> <<Frame(g.start, 0)>>,
     seen_sitemaps |-> {}, data |-> NewSitemapData,
     fetch_log |-> <<>>, loc_log |-> <<>>]

TooDeep_Never(depth) == FALSE

(* _fetch_recursive line 45 *)
TooDeep(depth) == depth > MAX_RECURSION

HasRoom_OneMore(urls) == Len(urls) <= MAX_URLS

(* _fetch_recursive line 85 *)
HasRoom(urls) == Len(urls) < MAX_URLS

Caught_RequestExceptionOnly(kind) == kind = "neterr"

(* _fetch_recursive lines 91-94: the except clauses cover every exception  *)
(* raised inside the try block                                             *)
Caught(kind) == TRUE

Top(s) == s.stack[Len(s.stack)]
Return(s) == [s EXCEPT !.stack = SubSeq(@, 1, Len(@) - 1)]
ParseError(s, kind, url) ==
    [s EXCEPT !.data.parse_errors = Append(@, [kind |-> kind, url |-> url])]

sitemapFrame == <<crawlVars, fx, rb, sc, an, dc>>

(* _fetch_recursive lines 45-70, 79, 88-94: the guard, the request and the *)
(* dispatch on what came back                                              *)
EnterSitemap ==
    /\ sm.phase = "run"
    /\ sm.stack # <<>>
    /\ Top(sm).at = "call"
    /\ LET f == Top(sm)
           n == Len(sm.stack)
           kind == Kind(sm.graph, f.url)
           got == [sm EXCEPT !.seen_sitemaps = @ \cup {f.url},
                             !.fetch_log = Append(@, [url |-> f.url,
                                                      depth |-> f.depth])]
           ok == [got EXCEPT !.data.status_code = 200, !.data.exists = TRUE]
       IN  sm' =
           IF TooDeep(f.depth) \/ f.url \in sm.seen_sitemaps THEN Return(sm)
           ELSE CASE kind = "neterr" ->
                       IF Caught(kind)
                       THEN Return(ParseError(got, kind, f.url))
                       ELSE [got EXCEPT !.phase = "raised", !.stack = <<>>]
                  [] kind = "non200" ->
                       Return(ParseError(
                           [got EXCEPT !.data.status_code = 500],
                           kind, f.url))
                  [] kind = "exc" ->
                       IF Caught(kind)
                       THEN Return(ParseError(ok, kind, f.url))
                       ELSE [ok EXCEPT !.phase = "raised", !.stack = <<>>]
                  [] kind \in {"malformed", "badroot"} ->
                       Return(ParseError(ok, kind, f.url))
                  [] kind = "index" ->
                       [ok EXCEPT !.data.is_index = TRUE,
                                  !.stack[n].at = "children"]
                  [] OTHER ->
                       [ok EXCEPT !.stack[n].at = "locs"]
    /\ UNCHANGED sitemapFrame

(* lines 72-77: the next child of the index is recorded and entered *)
StepChild ==
    /\ sm.phase = "run"
    /\ sm.stack # <<>>
    /\ Top(sm).at = "children"
    /\ Top(sm).pos <= Len(Children(sm.graph, Top(sm).url))
    /\ LET f == Top(sm)
           n == Len(sm.stack)
           child_url == Children(sm.graph, f.url)[f.pos]
       IN  sm' = [sm EXCEPT
                    !.data.child_sitemaps = Append(@, child_url),
                    !.stack = Append([@ EXCEPT ![n].pos = f.pos + 1],
                                     Frame(child_url, f.depth + 1))]
    /\ UNCHANGED sitemapFrame

(* line 72: the index has no further child *)
EndChildren ==
    /\ sm.phase = "run"
    /\ sm.stack # <<>>
    /\ Top(sm).at = "children"
    /\ Top(sm).pos > Len(Children(sm.graph, Top(sm).url))
    /\ sm' = Return(sm)
    /\ UNCHANGED sitemapFrame

(* lines 81-86: the next <loc> of the urlset *)
StepLoc ==
    /\ sm.phase = "run"
    /\ sm.stack # <<>>
    /\ Top(sm).at = "locs"
    /\ Top(sm).pos <= Len(Locs(Top(sm).url))
    /\ LET f == Top(sm)
           n == Len(sm.stack)
           page_url == Locs(f.url)[f.pos]
       IN  sm' = [sm EXCEPT
                    !.loc_log = Append(@, page_url),
                    !.data.urls = IF HasRoom(@) THEN Append(@, page_url)
                                  ELSE @,
                    !.stack[n].pos = f.pos + 1]
    /\ UNCHANGED sitemapFrame

(* line 81: the urlset has no further <loc> *)
EndLocs ==
    /\ sm.phase = "run"
    /\ sm.stack # <<>>
    /\ Top(sm).at = "locs"
    /\ Top(sm).pos > Len(Locs(Top(sm).url))
    /\ sm' = Return(sm)
    /\ UNCHANGED sitemapFrame

(* fetch_sitemap lines 33-34 *)
FinishSitemap ==
    /\ sm.phase = "run"
    /\ sm.stack = <<>>
    /\ sm' = [sm EXCEPT !.data.url_count = Len(sm.data.urls),
                        !.phase = "done"]
    /\ UNCHANGED sitemapFrame

InitSitemap ==
    /\ CrawlIdle
    /\ fx = FetchIdle /\ rb = RobotsIdle /\ sc = ScoreIdle
    /\ an = AnalyzeIdle /\ dc = DupIdle
    /\ \E g \in SitemapGraphs : sm = InitSitemapState(g)

NextSitemap ==
    \/ EnterSitemap
    \/ StepChild
    \/ EndChildren
    \/ StepLoc
    \/ EndLocs
    \/ FinishSitemap

SpecSitemap == InitSitemap /\ [][NextSitemap]_vars

(* fetch_sitemap runs in the calling thread, which keeps running *)
SpecSitemapFair == SpecSitemap /\ WF_vars(NextSitemap)

----------------------------------------------------------------------------
FetchedUrls(s) == [i \in 1..Len(s.fetch_log) |-> s.fetch_log[i].url]

(* C16: for any graph of sitemap indexes, also one whose index lists       *)
(* itself or that has a cycle, fetch_sitemap terminates, fetches each      *)
(* sitemap URL at most once, and never fetches a sitemap nested more than  *)
(* MAX_RECURSION levels below the root.                                    *)
C16_SitemapBounded ==
    /\ <>(sm.phase = "done")
    /\ [](/\ Distinct(FetchedUrls(sm))
          /\ \A i \in 1..Len(sm.fetch_log) :
                sm.fetch_log[i].depth <= MAX_RECURSION
          /\ Len(sm.stack) <= MAX_RECURSION + 2)

C16_Witness ==
    /\ sm.phase = "done"
    /\ sm.graph.start = 0 /\ sm.graph.len = 1 /\ sm.graph.back = 0
    /\ Count(sm.data.child_sitemaps, 0) = 1
    /\ Count(FetchedUrls(sm), 0) = 1
    /\ Count(sm.data.child_sitemaps, Leaf1) = 2
    /\ Count(FetchedUrls(sm), Leaf1) = 1

Prefix(seq, n) == SubSeq(seq, 1, Min(n, Len(seq)))

(* C17: at every point of the resolution the collected URL list holds at   *)
(* most MAX_URLS entries (10,000 in the source) and is exactly the first   *)
(* MAX_URLS <loc> entries in traversal order: later ones are dropped.      *)
C17_UrlCap ==
    sm.phase # "off" =>
        /\ Len(sm.data.urls) <= MAX_URLS
        /\ sm.data.urls = Prefix(sm.loc_log, MAX_URLS)

C17_Witness ==
    /\ sm.phase = "done"
    /\ Len(sm.loc_log) > MAX_URLS
    /\ Len(sm.data.urls) = MAX_URLS
    /\ sm.data.url_count = MAX_URLS

RECURSIVE LocsOf(_)
LocsOf(urls) ==
    IF urls = <<>> THEN <<>> ELSE Locs(Head(urls)) \o LocsOf(Tail(urls))
FailedFetches(s) ==
    SelectSeq(s.fetch_log, LAMBDA f : Kind(s.graph, f.url) \in FailKinds)

(* C18: fetch_sitemap never raises: for every sitemap of the tree that     *)
(* answers non-200, is malformed, has an unexpected root or cannot be      *)
(* fetched, one parse error is recorded, and the SitemapData is returned   *)
(* with the URLs of the sitemaps processed before and after it.            *)
C18_BestEffort ==
    /\ sm.phase # "raised"
    /\ sm.phase = "done" =>
          /\ sm.data.parse_errors =
                [i \in 1..Len(FailedFetches(sm)) |->
                    [kind |-> Kind(sm.graph, FailedFetches(sm)[i].url),
                     url |-> FailedFetches(sm)[i].url]]
          /\ sm.data.urls = Prefix(LocsOf(FetchedUrls(sm)), MAX_URLS)
          /\ sm.data.url_count = Len(sm.data.urls)

C18_Witness ==
    /\ sm.phase = "done"
    /\ sm.graph.start = 0
    /\ Len(sm.data.parse_errors) = 1
    /\ sm.data.urls = <<1, 2, 3>>
    /\ \E i, j, k \in 1..Len(sm.fetch_log) :
          /\ i < j /\ j < k
          /\ sm.fetch_log[i].url = Leaf1
          /\ sm.fetch_log[j].url = Bad
          /\ sm.fetch_log[k].url = Leaf2

----------------------------------------------------------------------------
(* scorer.py.  Scores are kept as exact fractions: a deduction is a        *)
(* numerator over the denominator 10 * n_pages, the overall score is       *)
(* returned in tenths (round(overall, 1)) and a category score in          *)
(* hundredths (round(weight - capped, 2)).                                 *)

MaxIssues == 3            \* issues of one list

(* config.py SCORING_WEIGHTS *)
SCORING_WEIGHTS ==
    [c \in {"HTTP Issues", "Links", "Meta", "Technical SEO", "Content",
            "Performance", "Security", "Images", "Sitemap", "Robots"} |->
        CASE c = "HTTP Issues" -> 18
          [] c = "Links" -> 15
          [] c = "Meta" -> 15
          [] c = "Technical SEO" -> 14
          [] c = "Content" -> 12
          [] c = "Performance" -> 10
          [] c = "Security" -> 8
          [] c = "Images" -> 5
          [] c = "Sitemap" -> 2
          [] OTHER -> 1]
Categories == DOMAIN SCORING_WEIGHTS

TypeWeight10_NoCritical(severity) ==
    CASE severity = "warning" -> 40
      [] severity = "info" -> 8
      [] OTHER -> 0

(* scorer.py _TYPE_WEIGHT, in tenths; line 53 gives 0.0 to anything else *)
TypeWeight10(severity) ==
    CASE severity = "critical" -> 120
      [] severity = "warning" -> 40
      [] severity = "info" -> 8
      [] OTHER -> 0

(* models.py Issue, the fields the scorer reads *)
Issue(url, category, issue_type, severity) ==
    [url |-> url, category |-> category, issue_type |-> issue_type,
     severity |-> severity]

(* the issues a list is made of: two types of "HTTP Issues", one of        *)
(* "Robots", one of a category that has no weight                          *)
IssuePool ==
    {Issue(u, "HTTP Issues", "broken", sv) :
        u \in {1, 2}, sv \in {"critical", "warning", "info"}}
    \cup {Issue(u, "HTTP Issues", "slow", "critical") : u \in {1, 2}}
    \cup {Issue(1, "Robots", "blocked", sv) : sv \in {"critical", "info"}}
    \cup {Issue(1, "Unlisted", "other", "critical")}

(* total_pages as the orchestrator or another caller passes it *)
TotalPages == {0, 1, 16, 20, 300}

Max(a, b) == IF a >= b THEN a ELSE b

(* the nearest integers to a / b for b > 0; binary floating point decides  *)
(* an exact tie either way                                                 *)
RoundDiv(a, b) ==
    LET q == a \div b
        r == a % b
    IN  IF 2 * r < b THEN {q}
        ELSE IF 2 * r > b THEN {q + 1}
        ELSE {q, q + 1}

(* lines 40-42: by_cat[category][issue_type] *)
TypeIssues(issues, category, issue_type) ==
    SelectSeq(issues, LAMBDA i : i.category = category
                                  /\ i.issue_type = issue_type)
TypesOf(issues, category) ==
    {issues[k].issue_type :
        k \in {j \in 1..Len(issues) : issues[j].category = category}}

RatioNum_Uncapped(affected_pages, n_pages) == affected_pages

(* line 57: min(1.0, affected_pages / n_pages), as a numerator over        *)
(* n_pages                                                                 *)
RatioNum(affected_pages, n_pages) == Min(affected_pages, n_pages)

TypeDeduction_PerInstance(type_issues, n_pages) ==
    TypeWeight10(type_issues[1].severity)
        * RatioNum(Len(type_issues), n_pages)

(* lines 52-59: base * ratio for one issue type, over 10 * n_pages *)
TypeDeduction(type_issues, n_pages) ==
    LET severity == type_issues[1].severity
        base == TypeWeight10(severity)
        affected_pages ==
            Cardinality({type_issues[k].url : k \in 1..Len(type_issues)})
    IN  base * RatioNum(affected_pages, n_pages)

(* lines 49-59: the sum over the issue types of the category *)
RECURSIVE SumTypes(_, _, _, _)
SumTypes(types, issues, category, n_pages) ==
    IF types = {} THEN 0
    ELSE LET t == CHOOSE x \in types : TRUE
         IN  TypeDeduction(TypeIssues(issues, category, t), n_pages)
             + SumTypes(types \ {t}, issues, category, n_pages)
CatDeduction(issues, category, n_pages) ==
    SumTypes(TypesOf(issues, category), issues, category, n_pages)

Capped_Uncapped(cat_deduction, weight, n_pages) == cat_deduction

(* line 61: min(cat_deduction, weight), over 10 * n_pages *)
Capped(cat_deduction, weight, n_pages) ==
    Min(cat_deduction, weight * 10 * n_pages)

CappedOf(issues, category, n_pages) ==
    Capped(CatDeduction(issues, category, n_pages),
           SCORING_WEIGHTS[category], n_pages)

(* lines 44, 63: total = 100.0 minus every capped deduction *)
RECURSIVE SumCapped(_, _, _)
SumCapped(cats, issues, n_pages) ==
    IF cats = {} THEN 0
    ELSE LET c == CHOOSE x \in cats : TRUE
         IN  CappedOf(issues, c, n_pages)
             + SumCapped(cats \ {c}, issues, n_pages)
TotalNum(issues, n_pages) ==
    1000 * n_pages - SumCapped(Categories, issues, n_pages)

(* lines 65-66: the values round(max(0.0, min(100.0, total)), 1) can take, *)
(* in tenths                                                               *)
OverallScores(issues, total_pages) ==
    IF issues = <<>> THEN {1000}
    ELSE LET n_pages == Max(total_pages, 1)
             total == TotalNum(issues, n_pages)
         IN  RoundDiv(Max(0, Min(1000 * n_pages, total)), n_pages)

(* lines 35, 62: the values round(weight - capped, 2) can take, in         *)
(* hundredths                                                              *)
CategoryScores(issues, total_pages, category) ==
    IF issues = <<>> THEN {SCORING_WEIGHTS[category] * 100}
    ELSE LET n_pages == Max(total_pages, 1)
             weight == SCORING_WEIGHTS[category]
         IN  RoundDiv((weight * 10 * n_pages
                          - CappedOf(issues, category, n_pages)) * 10,
                      n_pages)

NoScores == [overall |-> 0, category_scores |-> [c \in Categories |-> 0]]

(* prev describes the call before the last one, the list it was given and  *)
(* what it returned, and change what was done to the list since            *)
InitScoreState(total_pages) ==
    [phase |-> "input", issues |-> <<>>, total_pages |-> total_pages,
     overall |-> 0, category_scores |-> [c \in Categories |-> 0],
     prev |-> [issues |-> <<>>, scores |-> NoScores], change |-> "none"]

scoreFrame == <<crawlVars, fx, rb, sm, an, dc>>

(* the caller collects one more issue *)
AddIssue ==
    /\ sc.phase = "input"
    /\ Len(sc.issues) < MaxIssues
    /\ \E i \in IssuePool : sc' = [sc EXCEPT !.issues = Append(@, i)]
    /\ UNCHANGED scoreFrame

Lowest(S) == CHOOSE x \in S : \A y \in S : x <= y
Highest(S) == CHOOSE x \in S : \A y \in S : x >= y

(* compute_health_score(issues, total_pages): ties holds, for every        *)
(* category whose score is an exact tie, the way it is rounded             *)
ComputeHealthScore ==
    /\ sc.phase = "input"
    /\ LET tied == {c \in Categories :
                      Cardinality(CategoryScores(sc.issues, sc.total_pages,
                                                 c)) > 1}
       IN  \E overall \in OverallScores(sc.issues, sc.total_pages),
              ties \in [tied -> BOOLEAN] :
              sc' = [sc EXCEPT
                       !.phase = "scored",
                       !.overall = overall,
                       !.category_scores =
                           [c \in Categories |->
                              LET S == CategoryScores(sc.issues,
                                                      sc.total_pages, c)
                              IN  IF c \in tied /\ ties[c] THEN Highest(S)
                                  ELSE Lowest(S)]]
    /\ UNCHANGED scoreFrame

InitScore ==
    /\ CrawlIdle
    /\ fx = FetchIdle /\ rb = RobotsIdle /\ sm = SitemapIdle
    /\ an = AnalyzeIdle /\ dc = DupIdle
    /\ \E n \in TotalPages : sc = InitScoreState(n)

NextScore == AddIssue \/ ComputeHealthScore

SpecScore == InitScore /\ [][NextScore]_vars

----------------------------------------------------------------------------
RECURSIVE SumFn(_)
SumFn(f) ==
    IF DOMAIN f = {} THEN 0
    ELSE LET x == CHOOSE y \in DOMAIN f : TRUE
         IN  f[x] + SumFn([y \in DOMAIN f \ {x} |-> f[y]])

InstancesOf(issues, c, t) ==
    {k \in 1..Len(issues) :
        issues[k].category = c /\ issues[k].issue_type = t}
AffectedPages(issues, c, t) ==
    {issues[k].url : k \in InstancesOf(issues, c, t)}
FirstSeverity(issues, c, t) ==
    issues[Lowest(InstancesOf(issues, c, t))].severity
UniformSeverities(issues) ==
    \A j, k \in 1..Len(issues) :
        (issues[j].category = issues[k].category
            /\ issues[j].issue_type = issues[k].issue_type) =>
        issues[j].severity = issues[k].severity

(* the sum of base(severity) * min(1, affected / n) over the issue types   *)
(* of category c, and 100 minus the capped sums of all categories, both as *)
(* numerators over 10 * n, with base 12, 4 and 0.8                         *)
StatedDeduction(issues, c, n) ==
    SumFn([t \in TypesOf(issues, c) |->
              (CASE FirstSeverity(issues, c, t) = "critical" -> 120
                 [] FirstSeverity(issues, c, t) = "warning" -> 40
                 [] OTHER -> 8)
              * Min(n, Cardinality(AffectedPages(issues, c, t)))])
StatedTotal(issues, n) ==
    1000 * n - SumFn([c \in Categories |->
                         Min(SCORING_WEIGHTS[c] * 10 * n,
                             StatedDeduction(issues, c, n))])

OneCritical == <<Issue(1, "HTTP Issues", "broken", "critical")>>

(* C19 as stated: for every issue list and page count the overall score is *)
(* within [0, 100] and equal to 100 minus the sum over the categories of   *)
(* min(weight, sum over the issue types of base(severity) * min(1,         *)
(* affected pages / total pages)).                                         *)
C19_ExactScore ==
    (sc.phase = "scored" /\ sc.total_pages >= 1
        /\ UniformSeverities(sc.issues)) =>
        /\ sc.overall >= 0 /\ sc.overall <= 1000
        /\ sc.overall * sc.total_pages
              = StatedTotal(sc.issues, sc.total_pages)

(* C19 amended: the overall score is within [0, 100] and is that value     *)
(* rounded to one decimal, where the severity of an issue type is the      *)
(* severity of its first instance in the list and the page count counts as *)
(* at least 1; one critical type affecting 1 page of 1 costs 12, one       *)
(* affecting 1 page of 20 costs 0.6.                                       *)
C19_RoundedScore ==
    sc.phase = "scored" =>
        LET n == Max(sc.total_pages, 1)
            d == sc.overall * n - StatedTotal(sc.issues, n)
        IN  /\ sc.overall >= 0 /\ sc.overall <= 1000
            /\ 2 * d <= n /\ 2 * d >= 0 - n
            /\ (sc.issues = OneCritical /\ sc.total_pages = 1) =>
                   sc.overall = 880
            /\ (sc.issues = OneCritical /\ sc.total_pages = 20) =>
                   sc.overall = 994

C19_Witness ==
    /\ sc.phase = "scored"
    /\ sc.total_pages = 20
    /\ Len(sc.issues) = 3
    /\ sc.issues[1] = Issue(1, "HTTP Issues", "broken", "info")
    /\ sc.issues[2] = Issue(2, "HTTP Issues", "slow", "critical")
    /\ sc.issues[3] = Issue(2, "HTTP Issues", "broken", "critical")
    /\ sc.overall = 993

CategoriesWithIssues(issues) ==
    {c \in Categories : \E k \in 1..Len(issues) : issues[k].category = c}

(* C20: every category score lies between 0 and the category's weight:     *)
(* however many critical issue types fire in a category its deduction is   *)
(* capped at the weight, its score floors at 0, and the overall score      *)
(* loses no more than the weights of the categories that have issues.      *)
C20_CategoryCap ==
    sc.phase = "scored" =>
        /\ \A c \in Categories :
              /\ sc.category_scores[c] >= 0
              /\ sc.category_scores[c] <= SCORING_WEIGHTS[c] * 100
              /\ c \notin CategoriesWithIssues(sc.issues) =>
                    sc.category_scores[c] = SCORING_WEIGHTS[c] * 100
              /\ StatedDeduction(sc.issues, c, Max(sc.total_pages, 1))
                    >= SCORING_WEIGHTS[c] * 10 * Max(sc.total_pages, 1) =>
                    sc.category_scores[c] = 0
        /\ 1000 - sc.overall <=
              SumFn([c \in CategoriesWithIssues(sc.issues) |->
                        SCORING_WEIGHTS[c] * 10])

C20_Witness ==
    /\ sc.phase = "scored"
    /\ sc.total_pages = 1
    /\ \E j, k \in 1..Len(sc.issues) :
          /\ sc.issues[j] = Issue(1, "HTTP Issues", "broken", "critical")
          /\ sc.issues[k] = Issue(1, "HTTP Issues", "slow", "critical")
    /\ sc.category_scores["HTTP Issues"] = 0
    /\ sc.overall = 820

----------------------------------------------------------------------------
(* Two calls of compute_health_score in a row, the second on a list that   *)
(* is the first with one more instance appended or with two neighbours     *)
(* exchanged.                                                              *)

CriticalPool == {i \in IssuePool : i.severity = "critical"}

SwapAt(s, k) ==
    [j \in 1..Len(s) |->
        IF j = k THEN s[k + 1] ELSE IF j = k + 1 THEN s[k] ELSE s[j]]

(* lines 44-65 before the rounding: max(0.0, min(100.0, total)) over       *)
(* n_pages                                                                 *)
ExactOverall(issues, total_pages) ==
    LET n_pages == Max(total_pages, 1)
    IN  Max(0, Min(1000 * n_pages, TotalNum(issues, n_pages)))

(* compute_health_score(issues, sc.total_pages) called after the call that *)
(* returned sc.overall and sc.category_scores: the function is             *)
(* deterministic, so a value that is the same before the rounding is       *)
(* rounded the same way again                                              *)
Rescored(issues, change) ==
    LET n_pages == Max(sc.total_pages, 1)
        changed == {c \in Categories :
                      CappedOf(issues, c, n_pages)
                          # CappedOf(sc.issues, c, n_pages)}
        tied == {c \in changed :
                   Cardinality(CategoryScores(issues, sc.total_pages, c)) > 1}
        overalls ==
            IF ExactOverall(issues, sc.total_pages)
                  = ExactOverall(sc.issues, sc.total_pages)
            THEN {sc.overall}
            ELSE OverallScores(issues, sc.total_pages)
    IN  {[phase |-> "rescored", issues |-> issues,
          total_pages |-> sc.total_pages, overall |-> overall,
          category_scores |->
              [c \in Categories |->
                  LET S == CategoryScores(issues, sc.total_pages, c)
                  IN  IF c \notin changed THEN sc.category_scores[c]
                      ELSE IF c \in tied /\ ties[c] THEN Highest(S)
                      ELSE Lowest(S)],
          prev |-> [issues |-> sc.issues,
                    scores |-> [overall |-> sc.overall,
                                category_scores |-> sc.category_scores]],
          change |-> change] :
            overall \in overalls, ties \in [tied -> BOOLEAN]}

(* the scored list gets one more critical instance, as the analyzers add   *)
(* theirs with append and extend, and is scored again                      *)
AddCriticalInstance ==
    /\ sc.phase = "scored"
    /\ Len(sc.issues) < MaxIssues
    /\ \E i \in CriticalPool : sc' \in Rescored(Append(sc.issues, i), "add")
    /\ UNCHANGED scoreFrame

(* the scored list is scored again with two neighbours exchanged *)
Reorder ==
    /\ sc.phase = "scored"
    /\ \E k \in 1..(Len(sc.issues) - 1) :
          /\ sc.issues[k] # sc.issues[k + 1]
          /\ sc' \in Rescored(SwapAt(sc.issues, k), "reorder")
    /\ UNCHANGED scoreFrame

NextRescore == AddIssue \/ ComputeHealthScore \/ AddCriticalInstance

SpecRescore == InitScore /\ [][NextRescore]_vars

NextReorder == AddIssue \/ ComputeHealthScore \/ Reorder

SpecReorder == InitScore /\ [][NextReorder]_vars

----------------------------------------------------------------------------
AddedInstance == sc.issues[Len(sc.issues)]
InstanceAdded == sc.phase = "rescored" /\ sc.change = "add"
SameScores ==
    /\ sc.overall = sc.prev.scores.overall
    /\ sc.category_scores = sc.prev.scores.category_scores

(* C21: one more critical instance for a URL that the same issue type of   *)
(* the same category already flags leaves the overall score and every      *)
(* category score as they were.                                            *)
C21_InstanceCountIrrelevant ==
    (/\ InstanceAdded
     /\ AddedInstance.severity = "critical"
     /\ AddedInstance.url
           \in AffectedPages(sc.prev.issues, AddedInstance.category,
                             AddedInstance.issue_type)) =>
        SameScores

C21_Witness ==
    /\ InstanceAdded
    /\ sc.total_pages = 16
    /\ sc.prev.issues = <<Issue(1, "HTTP Issues", "broken", "critical"),
                          Issue(1, "Robots", "blocked", "critical")>>
    /\ AddedInstance = Issue(1, "HTTP Issues", "broken", "critical")
    /\ sc.overall = 985
    /\ SameScores

(* the added instance is a critical one of an issue type the list already  *)
(* had, for a page the type did not affect, in a category whose deduction  *)
(* is below its weight                                                     *)
NewPageForExistingType ==
    /\ InstanceAdded
    /\ AddedInstance.severity = "critical"
    /\ AddedInstance.category \in Categories
    /\ AddedInstance.issue_type
          \in TypesOf(sc.prev.issues, AddedInstance.category)
    /\ AddedInstance.url
          \notin AffectedPages(sc.prev.issues, AddedInstance.category,
                               AddedInstance.issue_type)
    /\ StatedDeduction(sc.prev.issues, AddedInstance.category,
                       Max(sc.total_pages, 1))
          < SCORING_WEIGHTS[AddedInstance.category] * 10
              * Max(sc.total_pages, 1)

(* C22 as stated: a critical issue of an existing issue type for a page it *)
(* did not affect before strictly decreases the overall score, as long as  *)
(* the category's capped deduction has not reached the weight.             *)
C22_StrictDecrease ==
    NewPageForExistingType => sc.overall < sc.prev.scores.overall

(* C22 amended: such an issue never increases the overall score; the score *)
(* strictly decreases when the sum of the capped category deductions grows *)
(* by more than 0.1, and stays as it was when the issue type already       *)
(* affected at least total_pages pages, the ratio being capped at 1.       *)
C22_NeverIncreases ==
    NewPageForExistingType =>
        LET n == Max(sc.total_pages, 1)
            a == AddedInstance
        IN  /\ sc.overall <= sc.prev.scores.overall
            /\ StatedTotal(sc.prev.issues, n) - StatedTotal(sc.issues, n) > n
                  => sc.overall < sc.prev.scores.overall
            /\ Cardinality(AffectedPages(sc.prev.issues, a.category,
                                         a.issue_type)) >= n
                  => SameScores

C22_Witness ==
    /\ NewPageForExistingType
    /\ sc.total_pages = 16
    /\ sc.prev.issues = <<Issue(1, "HTTP Issues", "broken", "critical")>>
    /\ AddedInstance = Issue(2, "HTTP Issues", "broken", "critical")
    /\ sc.prev.scores.overall \in {992, 993}
    /\ sc.overall = 985

(* C30: compute_health_score returns the same overall score and the same   *)
(* category scores for every reordering of the same issue list, lists      *)
(* whose instances of one issue type carry different severities included.  *)
C30_OrderIrrelevant ==
    (sc.phase = "rescored" /\ sc.change = "reorder") => SameScores

----------------------------------------------------------------------------
(* the parser reads an Allow or Disallow line while no agent group is      *)
(* open: no User-agent line came before it, or a blank line closed the     *)
(* group                                                                   *)
OrphanRuleRead ==
    /\ rb.phase = "parse" /\ rb'.phase = "parse"
    /\ Len(rb'.lines) = Len(rb.lines) + 1
    /\ rb'.lines[Len(rb'.lines)].kind \in {"allow", "disallow"}
    /\ rb.current_agents = <<>>

(* C27: an Allow or Disallow line met while no agent group is open is      *)
(* recorded as a parse error and adds no rule; parsing continues.          *)
C27_OrphanRuleIsParseError ==
    [][OrphanRuleRead =>
          /\ Len(rb'.data.parse_errors) = Len(rb.data.parse_errors) + 1
          /\ rb'.data.disallow_rules = rb.data.disallow_rules
          /\ rb'.data.allow_rules = rb.data.allow_rules]_vars

----------------------------------------------------------------------------
(* the start URL is one that _normalize_url rejects *)
InvalidStart == normalize_url(Scenario(site.scenario).start) = EmptyUrl

(* C24: a crawl whose start URL is invalid aborts as a fatal configuration *)
(* error before the frontier is seeded: no robots.txt, sitemap or page     *)
(* request is issued and no page is crawled.                               *)
C24_InvalidStartAborts ==
    (pc # "off" /\ InvalidStart) =>
        /\ pc \in {"seed", "failed"}
        /\ session_log = <<>>
        /\ submit_log = <<>>
        /\ pages = <<>>

(* C26: every seed URL is recorded with depth 0, and every other page with *)
(* 1 + the recorded depth of the page from whose links it was first        *)
(* admitted, whatever the outcome of its own fetch: seeds are queued with  *)
(* depth 0, an admitted link is queued with its parent's depth + 1, and    *)
(* the page stored for a future carries the depth the URL was queued with. *)
C26_DepthRecorded ==
    [][/\ (pc = "seed" /\ pc' = "submit") =>
             \A i \in 1..Len(todo') : todo'[i].depth = 0
       /\ (pc = "harvest" /\ Len(todo') = Len(todo) + 1) =>
             /\ cur.page.url \in DOMAIN pages
             /\ todo'[Len(todo')].depth = pages[cur.page.url].depth + 1
       /\ (pc = "process" /\ pc' = "harvest") =>
             LET f == Head(completed)
             IN  /\ f.url \in DOMAIN pages'
                 /\ pages'[f.url].depth = f.depth]_vars

(* two http(s) URLs that differ at most in the case of scheme and host, in *)
(* the fragment, in an explicit default port and in a trailing slash       *)
DefaultPort(scheme) == IF scheme = "http" THEN 80 ELSE 443
SameButSpelling(u, v) ==
    /\ u.scheme \in {"http", "https"} /\ u.host # ""
    /\ u.scheme = v.scheme /\ u.host = v.host /\ u.seg = v.seg
    /\ \A w \in {u, v} :
          /\ w.ports \in {<<>>, <<DefaultPort(w.scheme)>>}
          /\ w.slash \in {0, 1}

(* the URLs the crawl has met: the start URL, the sitemap URLs and the     *)
(* internal links of the pages stored so far                               *)
MetUrls ==
    IF pc \in {"off", "seed", "failed"} THEN {}
    ELSE {Scenario(site.scenario).start}
         \cup SeqToSet(Scenario(site.scenario).sitemap)
         \cup UNION {{pages[k].internal_links[i].url :
                         i \in 1..Len(pages[k].internal_links)} :
                     k \in DOMAIN pages}

(* C28: two http(s) URLs that differ only in the case of scheme or host,   *)
(* the fragment, an explicit default port or a trailing slash normalize to *)
(* the same deduplication key, so a crawl that meets both forms fetches    *)
(* the page once.                                                          *)
C28_OneDedupKey ==
    /\ \A u, v \in MetUrls :
          SameButSpelling(u, v) => normalize_url(u) = normalize_url(v)
    /\ \A i, j \in 1..Len(submit_log) :
          SameButSpelling(submit_log[i], submit_log[j]) =>
              submit_log[i] = submit_log[j]

Queued == {todo[i].url : i \in 1..Len(todo)}
InFlight == {pending_futures[i].url : i \in 1..Len(pending_futures)}
Completed == DOMAIN pages

(* C29: in every reachable state of a crawl the queued frontier, the       *)
(* in-flight URLs and the key set of pages are pairwise disjoint and their *)
(* union is exactly the visited set; a URL only moves from queued to in    *)
(* flight to completed.                                                    *)
C29_FrontierPartition ==
    /\ [](/\ Queued \cap InFlight = {}
          /\ Queued \cap Completed = {}
          /\ InFlight \cap Completed = {}
          /\ Queued \cup InFlight \cup Completed = visited)
    /\ [][/\ Queued' \subseteq Queued \cup (visited' \ visited)
          /\ InFlight' \subseteq InFlight \cup Queued
          /\ Completed' \subseteq Completed \cup InFlight
          /\ Completed \subseteq Completed'
          /\ InFlight \subseteq InFlight' \cup Completed']_vars

----------------------------------------------------------------------------
(* analyzers/orchestrator.py run_all_analyzers.  An invocation of an       *)
(* analyzer either returns its list of issues or raises; a page is its     *)
(* index in result.pages.                                                  *)

MaxAuditPages == 2        \* pages of the crawl result

(* lines 24-33: three of the eight _PER_PAGE_ANALYZERS, in their order *)
PER_PAGE_ANALYZERS ==
    <<[name |-> "MetaAnalyzer", category |-> "Meta"],
      [name |-> "ContentAnalyzer", category |-> "Content"],
      [name |-> "LinkAnalyzer", category |-> "Links"]>>

(* lines 68-101: the cross-page checks in their order; needs is the field  *)
(* of the AuditResult without which lines 92 and 100 skip the check        *)
BATCH_CHECKS ==
    <<[name |-> "DuplicateMetaAnalyzer", category |-> "Meta",
       needs |-> "none"],
      [name |-> "DuplicateContentAnalyzer", category |-> "Content",
       needs |-> "none"],
      [name |-> "OrphanPageAnalyzer", category |-> "Links",
       needs |-> "none"],
      [name |-> "SitemapAnalyzer", category |-> "Sitemap",
       needs |-> "sitemap_data"],
      [name |-> "RobotsAnalyzer", category |-> "Robots",
       needs |-> "robots_data"]>>

(* what an invocation that does not raise returns: one issue of the        *)
(* analyzer's category; a cross-page check reports on page 0               *)
Found(analyzer, page) ==
    <<Issue(page, analyzer.category, analyzer.name, "warning")>>

(* compute_health_score: the pairs it can return *)
ScoreResults(issues, total_pages) ==
    LET tied == {c \in Categories :
                   Cardinality(CategoryScores(issues, total_pages, c)) > 1}
    IN  {[overall |-> overall,
          category_scores |->
              [c \in Categories |->
                  LET S == CategoryScores(issues, total_pages, c)
                  IN  IF c \in tied /\ ties[c] THEN Highest(S)
                      ELSE Lowest(S)]] :
            overall \in OverallScores(issues, total_pages),
            ties \in [tied -> BOOLEAN]}

(* pages is len(all_pages), html_pages the number of them that line 111    *)
(* counts (none or all of them), log the invocations made so far           *)
InitAnalyzeState(total, html_pages, sitemap_data, robots_data) ==
    [phase |-> "pages", pages |-> total, html_pages |-> html_pages,
     sitemap_data |-> sitemap_data, robots_data |-> robots_data,
     idx |-> 1, analyzer |-> 1, check |-> 1,
     issues |-> <<>>, log |-> <<>>, score |-> NoScores]

analyzeFrame == <<crawlVars, fx, rb, sm, sc, dc>>

Swallowed_Never(raised) == ~raised

(* lines 57-59, 71-72, 77-78, 87-88, 96-97, 104-105: except Exception:     *)
(* pass; the run goes on after the invocation, raised or not               *)
Swallowed(raised) == TRUE

Invoked(analyzer, page, raised) ==
    [name |-> analyzer.name, page |-> page, raised |-> raised,
     found |-> IF raised THEN <<>> ELSE Found(analyzer, page)]

(* lines 52-59: analyzer.analyze(page, all_pages, config) for the next     *)
(* analyzer of the current page, and issues.extend(found)                  *)
Analyze ==
    /\ an.phase = "pages"
    /\ an.idx <= an.pages
    /\ \E raised \in BOOLEAN :
          LET inv == Invoked(PER_PAGE_ANALYZERS[an.analyzer], an.idx, raised)
              last == an.analyzer = Len(PER_PAGE_ANALYZERS)
          IN  an' = IF Swallowed(raised)
                    THEN [an EXCEPT !.issues = @ \o inv.found,
                                    !.log = Append(@, inv),
                                    !.analyzer = IF last THEN 1 ELSE @ + 1,
                                    !.idx = IF last THEN @ + 1 ELSE @]
                    ELSE [an EXCEPT !.phase = "raised",
                                    !.log = Append(@, inv)]
    /\ UNCHANGED analyzeFrame

(* line 52: the loop over the pages ends *)
EndPages ==
    /\ an.phase = "pages"
    /\ an.idx > an.pages
    /\ an' = [an EXCEPT !.phase = "batch"]
    /\ UNCHANGED analyzeFrame

Skipped(check) ==
    \/ check.needs = "sitemap_data" /\ ~an.sitemap_data
    \/ check.needs = "robots_data" /\ ~an.robots_data

(* lines 68-105: the next cross-page check *)
BatchCheck ==
    /\ an.phase = "batch"
    /\ an.check <= Len(BATCH_CHECKS)
    /\ LET check == BATCH_CHECKS[an.check]
       IN  IF Skipped(check)
           THEN an' = [an EXCEPT !.check = @ + 1]
           ELSE \E raised \in BOOLEAN :
                   LET inv == Invoked(check, 0, raised)
                   IN  an' = IF Swallowed(raised)
                             THEN [an EXCEPT !.issues = @ \o inv.found,
                                             !.log = Append(@, inv),
                                             !.check = @ + 1]
                             ELSE [an EXCEPT !.phase = "raised",
                                             !.log = Append(@, inv)]
    /\ UNCHANGED analyzeFrame

(* lines 110-112: result.issues and the score *)
ScoreAudit ==
    /\ an.phase = "batch"
    /\ an.check > Len(BATCH_CHECKS)
    /\ \E r \in ScoreResults(an.issues, Max(an.html_pages, 1)) :
          an' = [an EXCEPT !.phase = "returned", !.score = r]
    /\ UNCHANGED analyzeFrame

InitAnalyze ==
    /\ CrawlIdle
    /\ fx = FetchIdle /\ rb = RobotsIdle /\ sm = SitemapIdle
    /\ sc = ScoreIdle /\ dc = DupIdle
    /\ \E total \in 0..MaxAuditPages, sitemap_data, robots_data \in BOOLEAN :
          \E html_pages \in {0, total} :
             an = InitAnalyzeState(total, html_pages, sitemap_data,
                                   robots_data)

NextAnalyze == Analyze \/ EndPages \/ BatchCheck \/ ScoreAudit

SpecAnalyze == InitAnalyze /\ [][NextAnalyze]_vars

----------------------------------------------------------------------------
(* the invocations run_all_analyzers is to make *)
DueInvocations ==
    {[name |-> PER_PAGE_ANALYZERS[k].name, page |-> page] :
        k \in 1..Len(PER_PAGE_ANALYZERS), page \in 1..an.pages}
    \cup {[name |-> BATCH_CHECKS[k].name, page |-> 0] :
            k \in {j \in 1..Len(BATCH_CHECKS) : ~Skipped(BATCH_CHECKS[j])}}
MadeInvocations ==
    {[name |-> an.log[i].name, page |-> an.log[i].page] :
        i \in 1..Len(an.log)}

(* C23: an exception raised by a per-page rule invocation or a cross-page  *)
(* check does not stop run_all_analyzers: whichever invocations fail, the  *)
(* run returns, every invocation was made, the final issue list contains   *)
(* every issue returned by the invocations that did not fail, and the      *)
(* score is the score of that list.                                        *)
C23_RuleFailureIsolated ==
    /\ an.phase # "raised"
    /\ an.phase = "returned" =>
          /\ MadeInvocations = DueInvocations
          /\ \A i \in 1..Len(an.log) :
                SeqToSet(an.log[i].found) \subseteq SeqToSet(an.issues)
          /\ Len(an.issues)
                = Cardinality({i \in 1..Len(an.log) : ~an.log[i].raised})
          /\ an.score \in ScoreResults(an.issues, Max(an.html_pages, 1))

C23_Witness ==
    /\ an.phase = "returned"
    /\ an.pages = 2
    /\ \E i, j, k \in 1..Len(an.log) :
          /\ an.log[i].page = 1 /\ an.log[i].raised
          /\ an.log[j].page = 0 /\ an.log[j].raised
          /\ an.log[k].page = 2 /\ ~an.log[k].raised
    /\ Len(an.issues) >= 3
    /\ an.score.overall < 1000

----------------------------------------------------------------------------
(* parser.py _parse_content and content.py run_duplicate_checks, the exact *)
(* duplicates.  A text is a sequence of characters, a URL a page number    *)
(* with the length of its string.                                          *)

MaxDupPages == 2          \* pages of the crawl result

MIN_WORDS == 1            \* content.py line 150: 50
DETAIL_MAX == 200         \* content.py line 165
ShortUrlLen == 20
LongUrlLen == 250

Whitespace == {" ", "\n"}

(* what body.get_text(separator=" ", strip=True) returns for a page *)
VisibleTexts ==
    {<<"a", " ", "b">>, <<"A", " ", "b">>,
     <<" ", "a", "\n", " ", "b", " ">>, <<"a", " ", "a">>,
     <<"a", "b">>, <<"a">>, <<"A">>, <<>>}

(* status, indexability and URL length of a parsed HTML page *)
PageShapes ==
    {[status_code |-> 200, is_indexable |-> TRUE, url_len |-> ShortUrlLen],
     [status_code |-> 404, is_indexable |-> TRUE, url_len |-> ShortUrlLen],
     [status_code |-> 200, is_indexable |-> FALSE, url_len |-> ShortUrlLen],
     [status_code |-> 200, is_indexable |-> TRUE, url_len |-> LongUrlLen]}

(* parser.py lines 135-136: re.sub(r"\s+", " ", text).strip() *)
RECURSIVE Collapse(_, _, _)
Collapse(text, out, gap) ==
    IF text = <<>> THEN out
    ELSE IF Head(text) \in Whitespace
         THEN Collapse(Tail(text), out, out # <<>>)
         ELSE Collapse(Tail(text),
                       (IF gap THEN Append(out, " ") ELSE out)
                           \o <<Head(text)>>,
                       FALSE)

(* str.lower *)
LowerText(text) ==
    [i \in 1..Len(text) |-> IF text[i] = "A" THEN "a" ELSE text[i]]

(* parser.py line 138: len(text.split()) if text else 0 *)
WordCount(text) ==
    IF text = <<>> THEN 0
    ELSE 1 + Cardinality({i \in 1..Len(text) : text[i] = " "})

(* hashlib.md5(...).hexdigest(): equal digests for equal strings, and no   *)
(* collision among the texts of the model                                  *)
Md5(text) == [md5 |-> text]

ContentHash_CaseSensitive(text) == Md5(text)

(* parser.py lines 141-142 *)
ContentHash(text) == Md5(LowerText(text))

(* the PageData of an HTML page after _parse_content; html stands for the  *)
(* visible text of page.html                                               *)
ParsedPage(id, shape, raw) ==
    LET text == Collapse(raw, <<>>, FALSE)
    IN  [url |-> [id |-> id, len |-> shape.url_len], html |-> raw,
         is_html |-> TRUE, status_code |-> shape.status_code,
         is_indexable |-> shape.is_indexable,
         text_content |-> text, word_count |-> WordCount(text),
         content_hash |-> ContentHash(text)]

(* content.py lines 146-152 *)
IsCandidate(page) ==
    /\ page.is_html
    /\ page.status_code >= 200 /\ page.status_code < 300
    /\ page.is_indexable
    /\ page.word_count > MIN_WORDS

(* content.py lines 155-158: hash_map[h], the URLs of the candidates with  *)
(* content hash h, in the order of all_pages; the hash of a parsed page is *)
(* never the empty string that line 157 tests for                          *)
HashGroup(all_pages, h) ==
    LET sel == SelectSeq(all_pages, LAMBDA q : IsCandidate(q)
                                           /\ q.content_hash = h)
    IN  [i \in 1..Len(sel) |-> sel[i].url]

(* content.py line 169: ', '.join(...)[:200], as the URLs that are in the  *)
(* string in full; room is what is left of the 200 characters              *)
RECURSIVE Joined(_, _, _)
Joined(urls, room, first) ==
    IF urls = <<>> THEN <<>>
    ELSE LET need == Head(urls).len + (IF first THEN 0 ELSE 2)
         IN  IF need > room THEN <<>>
             ELSE <<Head(urls)>> \o Joined(Tail(urls), room - need, FALSE)

(* content.py lines 165-170: the issue of one URL of a group *)
ExactDuplicateIssue(url, urls) ==
    [url |-> url, category |-> "Content",
     issue_type |-> "duplicate_content_exact", severity |-> "warning",
     detail |-> Joined(SelectSeq(urls, LAMBDA u : u # url), DETAIL_MAX,
                       TRUE)]

(* content.py lines 160-170: the groups in the order of their first page *)
RECURSIVE ExactDuplicates(_, _, _)
ExactDuplicates(all_pages, i, seen) ==
    IF i > Len(all_pages) THEN <<>>
    ELSE LET h == all_pages[i].content_hash
             urls == HashGroup(all_pages, h)
         IN  IF IsCandidate(all_pages[i]) /\ h \notin seen /\ Len(urls) > 1
             THEN [k \in 1..Len(urls) |-> ExactDuplicateIssue(urls[k], urls)]
                      \o ExactDuplicates(all_pages, i + 1, seen \cup {h})
             ELSE ExactDuplicates(all_pages, i + 1, seen)

InitDupState == [phase |-> "crawl", pages |-> <<>>, issues |-> <<>>]

dupFrame == <<crawlVars, fx, rb, sm, sc, an>>

(* parse_page: one more HTML page is parsed and stored in all_pages *)
ParseContent ==
    /\ dc.phase = "crawl"
    /\ Len(dc.pages) < MaxDupPages
    /\ \E shape \in PageShapes, raw \in VisibleTexts :
          dc' = [dc EXCEPT !.pages =
                    Append(@, ParsedPage(Len(dc.pages) + 1, shape, raw))]
    /\ UNCHANGED dupFrame

(* DuplicateContentAnalyzer.run_duplicate_checks(all_pages, config) *)
RunDuplicateChecks ==
    /\ dc.phase = "crawl"
    /\ dc' = [dc EXCEPT !.phase = "checked",
                        !.issues = ExactDuplicates(dc.pages, 1, {})]
    /\ UNCHANGED dupFrame

InitDuplicates ==
    /\ CrawlIdle
    /\ fx = FetchIdle /\ rb = RobotsIdle /\ sm = SitemapIdle
    /\ sc = ScoreIdle /\ an = AnalyzeIdle
    /\ dc = InitDupState

NextDuplicates == ParseContent \/ RunDuplicateChecks

SpecDuplicates == InitDuplicates /\ [][NextDuplicates]_vars

----------------------------------------------------------------------------
(* the words of a text, lower-cased: what is left of it after whitespace   *)
(* and case normalization                                                  *)
RECURSIVE NormalWords(_, _, _)
NormalWords(text, words, word) ==
    IF text = <<>> THEN (IF word = <<>> THEN words ELSE Append(words, word))
    ELSE IF Head(text) \in Whitespace
         THEN NormalWords(Tail(text),
                          IF word = <<>> THEN words ELSE Append(words, word),
                          <<>>)
         ELSE NormalWords(Tail(text), words,
                          Append(word, IF Head(text) = "A" THEN "a"
                                       ELSE Head(text)))
SameVisibleText(p, q) ==
    NormalWords(p.html, <<>>, <<>>) = NormalWords(q.html, <<>>, <<>>)

(* page p has a duplicate_content_exact issue whose detail names page q *)
FlaggedWith(p, q) ==
    \E k \in 1..Len(dc.issues) :
        /\ dc.issues[k].url = p.url
        /\ dc.issues[k].issue_type = "duplicate_content_exact"
        /\ q.url \in SeqToSet(dc.issues[k].detail)
Flagged(p) == \E k \in 1..Len(dc.issues) : dc.issues[k].url = p.url

(* C25 as stated: whenever two crawled pages have identical visible text   *)
(* after whitespace and case normalization, they get the same content hash *)
(* and both are flagged with a duplicate_content_exact issue whose detail  *)
(* references the other page.                                              *)
C25_ExactDuplicatesFlagged ==
    dc.phase = "checked" =>
        \A i, j \in 1..Len(dc.pages) :
            (i # j /\ SameVisibleText(dc.pages[i], dc.pages[j])) =>
                /\ dc.pages[i].content_hash = dc.pages[j].content_hash
                /\ FlaggedWith(dc.pages[i], dc.pages[j])

(* C25 amended: two such pages get the same content hash; both are flagged *)
(* when both are indexable HTML pages with a 2xx status and more than 50   *)
(* words, the detail naming the other page when its URL fits into the 200  *)
(* characters of the detail; a page that is not such a page is not         *)
(* flagged.                                                                *)
C25_CandidateDuplicatesFlagged ==
    dc.phase = "checked" =>
        /\ \A i, j \in 1..Len(dc.pages) :
              (i # j /\ SameVisibleText(dc.pages[i], dc.pages[j])) =>
                  /\ dc.pages[i].content_hash = dc.pages[j].content_hash
                  /\ (IsCandidate(dc.pages[i]) /\ IsCandidate(dc.pages[j]))
                        => Flagged(dc.pages[i])
                  /\ (/\ IsCandidate(dc.pages[i]) /\ IsCandidate(dc.pages[j])
                      /\ \A k \in 1..Len(dc.pages) :
                            dc.pages[k].url.len = ShortUrlLen)
                        => FlaggedWith(dc.pages[i], dc.pages[j])
        /\ \A i \in 1..Len(dc.pages) :
              Flagged(dc.pages[i]) =>
                  /\ IsCandidate(dc.pages[i])
                  /\ \E j \in 1..Len(dc.pages) :
                        i # j /\ SameVisibleText(dc.pages[i], dc.pages[j])

C25_Witness ==
    /\ dc.phase = "checked"
    /\ Len(dc.pages) = 2
    /\ dc.pages[1].html = <<"A", " ", "b">>
    /\ dc.pages[2].html = <<" ", "a", "\n", " ", "b", " ">>
    /\ dc.pages[1].content_hash = dc.pages[2].content_hash
    /\ FlaggedWith(dc.pages[1], dc.pages[2])
    /\ FlaggedWith(dc.pages[2], dc.pages[1])

============================================================================
